---- MODULE Spec2Model ----
(***************************************************************************)
(* GeoFLAC/gospl_extensions: the time-step controller EnhancedModel        *)
(* (src/gospl_model_ext/enhanced_model.py) and the velocity interpolation  *)
(* DataDrivenTectonics.apply_velocity_data                                 *)
(* (src/gospl_tectonics_ext/data_driven_tectonics.py) as state machines.   *)
(*                                                                         *)
(* The simulation clock is (tNow, dt, tEnd).  The three controller methods *)
(* runProcessesForDt (stepForInterval), runProcessesForSteps (stepNTimes)  *)
(* and runProcessesUntilTime (stepUntil) are modelled statement group by   *)
(* statement group on an explicit call stack, so that the wrapped          *)
(* single-step primitive can return, raise, or call back into the          *)
(* controller while the override of (dt, tEnd) is in force.                *)
(*                                                                         *)
(* Spec is the controller over a primitive that may advance, raise or call *)
(* back; SpecPlain is the controller over the primitive of the test suite  *)
(* (MockModel.runProcesses, which always advances tNow by self.dt), with   *)
(* a client that runs freshly constructed models and compares their final  *)
(* clocks (test_timing_consistency).  The start time of a simulation is    *)
(* configuration and may be negative, so the clock starts at -2 or 0.      *)
(*                                                                         *)
(* Clock values are integers: the arithmetic of the controller (tNow + dt, *)
(* target_time - tNow, min) is modelled exactly, which is what Python      *)
(* computes for int arguments and for floats whose sums and differences    *)
(* are representable (the 1000.0-grained values of the test suite).        *)
(* Rounding of non-representable float sums is outside this model.         *)
(*                                                                         *)
(* SpecTect is one DataDrivenTectonics object whose client calls           *)
(* apply_velocity_data once or twice; the collaborators                    *)
(* (_readAdvectionData, getfacevelocity, _varAdvector) return or raise.    *)
(*                                                                         *)
(* SpecElev is one DataDrivenTectonics object whose client calls           *)
(* interpolate_elevation_to_points once.  SpecApi is the handle registry   *)
(* of src/cpp_interface/cpp_interface/gospl_python_interface.py: its       *)
(* wrappers look a model up by its handle and run the controller and       *)
(* apply_velocity_data on it, turning every error into a return value.     *)
(***************************************************************************)
EXTENDS Integers, Sequences, FiniteSets, TLC

VARIABLES
    tNow,     \* self.tNow
    dt,       \* self.dt
    tEnd,     \* self.tEnd
    stack,    \* the Python call stack: controller frames and primitive frames
    last,     \* observation: summary of the controller frame that exited last in this client call
    orig,     \* observation: the clock the model was constructed with
    nested,   \* observation: number of controller calls made from inside the primitive
    runs,     \* observation: the final clocks a client has seen of runs over one interval
    mesh,       \* DataDrivenTectonics: mCoords, locIDs, lpoints, flatModel, advscheme (read only)
    hdisp,      \* self.hdisp
    upsub,      \* self.upsub
    plateStep,  \* self.plateStep
    plateTimer, \* self.plateTimer
    act,        \* the activation of apply_velocity_data: position, arguments, locals
    colls,      \* observation: the collaborator calls made by the running or last call
    seen,       \* observation: summaries of the last two finished apply_velocity_data calls
    elev,        \* observation: the last interpolate_elevation_to_points call and its outcome
    models,      \* gospl_python_interface: _models, handle -> the fields of the model stored
    next_handle, \* gospl_python_interface: _next_handle
    api,         \* the activation of an interface function: name, handle, position
    ret,         \* observation: what the interface call made last returned, once it has
    issued,      \* observation: the handles returned by create_enhanced_model, in order
    destroyed    \* observation: the handles destroy_model has removed

\* the state of the DataDrivenTectonics object and of its client
tectVars == <<mesh, hdisp, upsub, plateStep, plateTimer, act, colls, seen>>

\* the elevation interpolation's observation, and the state of the interface module
extVars == <<elev, models, next_handle, api, ret, issued, destroyed>>

vars == <<tNow, dt, tEnd, stack, last, orig, nested, runs, tectVars, extVars>>

-----------------------------------------------------------------------------
(* Bounds of the model *)

MaxDt == 2          \* largest dt an ordinary call supplies, and largest initial self.dt
MaxSteps == 2       \* largest num_steps a call supplies
MaxTarget == 4      \* largest target_time a call supplies
MaxClock == 0       \* a client starts a new call only while tNow <= MaxClock
MaxNested == 1      \* controller calls made from inside the primitive, per behaviour

(* MockModel.__init__ : self.tEnd = 100000.0 *)
InitTEnd == 100000

-----------------------------------------------------------------------------
(* Values *)

\* Python's optional argument dt=None / dt=<number>
None == [some |-> FALSE, v |-> 0]
Some(x) == [some |-> TRUE, v |-> x]

\* the value of process_time() - tstep: an opaque measurement
Elapsed == "elapsed"

\* exceptions
NoExc == "none"
ValueErrorDt == "ValueError: dt must be positive"
ValueErrorSteps == "ValueError: num_steps must be positive"
ValueErrorTarget == "ValueError: target_time must be non-negative"
PrimitiveError == "RuntimeError: raised by the single-step primitive"

Min(a, b) == IF a <= b THEN a ELSE b

Clock == [tNow |-> tNow, dt |-> dt, tEnd |-> tEnd]

DtArgs == {None} \cup {Some(d) : d \in -1..MaxDt}
StepArgs == -1..MaxSteps
TargetArgs == -1..MaxTarget
InitTimes == {-2, 0}

-----------------------------------------------------------------------------
(* Call stack *)

Depth == Len(stack)
Top == stack[Depth]
Idle == stack = <<>>

\* a fresh activation record; the fields after exc are observations:
\* the clock at entry, the primitive invocations made on behalf of the frame,
\* whether no primitive under it called back into the controller (clean),
\* whether a primitive under it failed by itself (failed).
Frame(kind, dtArg, num_steps, target_time) ==
    [kind |-> kind, pc |-> "start",
     dtArg |-> dtArg, num_steps |-> num_steps, target_time |-> target_time,
     dt |-> 0, original_dt |-> 0, original_tEnd |-> 0,
     step |-> 0, elapsed_times |-> <<>>, exc |-> NoExc,
     entry |-> Clock, inv |-> 0, clean |-> TRUE, failed |-> FALSE]

\* the three execution modes of the controller
Modes == {"ForDt", "ForSteps", "UntilTime"}

NoRuns ==
    [total |-> 0,
     final |-> [m \in Modes |-> [seen |-> FALSE, clock |-> [tNow |-> 0, dt |-> 0, tEnd |-> 0]]]]

NoLast ==
    [kind |-> "none", dtArg |-> None, num_steps |-> 0, target_time |-> 0,
     outcome |-> "none", err |-> NoExc, result |-> <<>>, validated |-> FALSE,
     caught |-> NoExc, step |-> 0,
     entry |-> [tNow |-> 0, dt |-> 0, tEnd |-> 0],
     exit |-> [tNow |-> 0, dt |-> 0, tEnd |-> 0],
     inv |-> 0, clean |-> TRUE, failed |-> FALSE, depth |-> 0]

\* what a caller sees of the frame f leaving the stack
Summary(f, outcome, err, result, clockAfter, depthAfter) ==
    [kind |-> f.kind, dtArg |-> f.dtArg, num_steps |-> f.num_steps,
     target_time |-> f.target_time,
     outcome |-> outcome, err |-> err, result |-> result,
     validated |-> f.pc # "start",
     caught |-> f.exc, step |-> f.step,
     entry |-> f.entry, exit |-> clockAfter,
     inv |-> f.inv, clean |-> f.clean, failed |-> f.failed, depth |-> depthAfter]

\* the caller's frame once the callee has returned or raised: Python resumes
\* the caller after the call expression, or unwinds into it.
Resume(caller, callee, outcome, err) ==
    [caller EXCEPT !.pc = IF outcome = "return" THEN "returned" ELSE "raised",
                   !.exc = err,
                   !.inv = @ + callee.inv,
                   !.clean = @ /\ callee.clean,
                   !.failed = @ \/ callee.failed]

\* the stack after its top frame (in its final form f) has left with the given outcome
UnwindFrom(f, outcome, err) ==
    IF Depth = 1 THEN <<>>
    ELSE [SubSeq(stack, 1, Depth - 1) EXCEPT
             ![Depth - 1] = Resume(stack[Depth - 1], f, outcome, err)]

Unwind(outcome, err) == UnwindFrom(Top, outcome, err)

\* the top controller frame exits (return statement or propagating exception);
\* the clock of the next state is the clock the caller observes.
Leave(outcome, err, result) ==
    /\ stack' = Unwind(outcome, err)
    /\ last' = Summary(Top, outcome, err, result,
                       [tNow |-> tNow', dt |-> dt', tEnd |-> tEnd'], Depth - 1)

Push(f) == stack' = Append(stack, f)

SetTop(f) == stack' = [stack EXCEPT ![Depth] = f]

At(kind, pc) == ~Idle /\ Top.kind = kind /\ Top.pc = pc

-----------------------------------------------------------------------------
(* EnhancedModel.runProcessesForDt, lines 25-78 *)

\* lines 37-48: validation, default, save of the original dt and tEnd
\* fault variant: there is no test
ForDtValid_Unchecked(f) == TRUE
\* fault variant: the test is dt < 0
ForDtValid_ZeroAccepted(f) == ~(f.dtArg.some /\ f.dtArg.v < 0)
ForDtValid(f) == ~(f.dtArg.some /\ f.dtArg.v <= 0)

ForDt_Reject ==
    /\ At("ForDt", "start")
    /\ ~ForDtValid(Top)
    /\ UNCHANGED <<tNow, dt, tEnd, orig, nested, runs, tectVars, extVars>>
    /\ Leave("raise", ValueErrorDt, <<>>)

\* lines 40-41: if dt is None: dt = self.dt
ForDtDefault(f) == IF f.dtArg.some THEN f.dtArg.v ELSE dt

ForDt_Save ==
    /\ At("ForDt", "start")
    /\ ForDtValid(Top)
    /\ SetTop([Top EXCEPT !.pc = "try",
                          !.dt = ForDtDefault(Top),
                          !.original_dt = dt,
                          !.original_tEnd = tEnd])
    /\ UNCHANGED <<tNow, dt, tEnd, last, orig, nested, runs, tectVars, extVars>>

\* lines 52-54: self.dt = dt; target_time = self.tNow + dt; self.tEnd = target_time
\* fault variant: self.dt is not overridden
OverrideDt_Kept(f) == dt
OverrideDt(f) == f.dt
\* fault variant: self.tEnd is not overridden
OverrideTEnd_Kept(f) == tEnd
OverrideTEnd(f) == tNow + f.dt

ForDt_Override ==
    /\ At("ForDt", "try")
    /\ dt' = OverrideDt(Top)
    /\ tEnd' = OverrideTEnd(Top)
    /\ SetTop([Top EXCEPT !.pc = "invoke"])
    /\ UNCHANGED <<tNow, last, orig, nested, runs, tectVars, extVars>>

\* lines 57-65: the one call of the single-step primitive
ForDt_Invoke ==
    /\ At("ForDt", "invoke")
    /\ stack' = Append([stack EXCEPT ![Depth] = [Top EXCEPT !.pc = "wait", !.inv = @ + 1]],
                       Frame("prim", None, 0, 0))
    /\ UNCHANGED <<tNow, dt, tEnd, last, orig, nested, runs, tectVars, extVars>>

\* lines 75-78: the finally block
\* fault variant: self.dt is not restored
RestoreDt_Skipped(f) == dt
RestoreDt(f) == f.original_dt
\* fault variant: self.tEnd is not restored
RestoreTEnd_Skipped(f) == tEnd
RestoreTEnd(f) == f.original_tEnd

\* lines 68-73 then 75-78: return elapsed_time through the finally block
ForDt_Return ==
    /\ At("ForDt", "returned")
    /\ dt' = RestoreDt(Top)
    /\ tEnd' = RestoreTEnd(Top)
    /\ UNCHANGED <<tNow, orig, nested, runs, tectVars, extVars>>
    /\ Leave("return", NoExc, <<Elapsed>>)

\* the primitive raised: the finally block runs, the exception propagates
\* fault variant: the exception is replaced on the way out
ForDtReraised_Replaced(f) == ValueErrorDt
ForDtReraised(f) == f.exc

ForDt_Finally ==
    /\ At("ForDt", "raised")
    /\ dt' = RestoreDt(Top)
    /\ tEnd' = RestoreTEnd(Top)
    /\ UNCHANGED <<tNow, orig, nested, runs, tectVars, extVars>>
    /\ Leave("raise", ForDtReraised(Top), <<>>)

-----------------------------------------------------------------------------
(* EnhancedModel.runProcessesForSteps, lines 80-109 *)

\* lines 90-91
\* fault variant: the test is num_steps < 0
ForStepsValid_ZeroAccepted(f) == f.num_steps >= 0
ForStepsValid(f) == f.num_steps > 0

ForSteps_Reject ==
    /\ At("ForSteps", "start")
    /\ ~ForStepsValid(Top)
    /\ UNCHANGED <<tNow, dt, tEnd, orig, nested, runs, tectVars, extVars>>
    /\ Leave("raise", ValueErrorSteps, <<>>)

\* lines 93-94: if dt is None: dt = self.dt
\* fault variant: the supplied dt is ignored
ForStepsDefault_Ignored(f) == dt
ForStepsDefault(f) == IF f.dtArg.some THEN f.dtArg.v ELSE dt

\* lines 93-96: default of dt, empty list
ForSteps_Begin ==
    /\ At("ForSteps", "start")
    /\ ForStepsValid(Top)
    /\ SetTop([Top EXCEPT !.pc = "loop",
                          !.dt = ForStepsDefault(Top),
                          !.elapsed_times = <<>>,
                          !.step = 0])
    /\ UNCHANGED <<tNow, dt, tEnd, last, orig, nested, runs, tectVars, extVars>>

\* line 101: for step in range(num_steps)
\* fault variant: one iteration too many
ForStepsMore_OffByOne(f) == f.step <= f.num_steps
ForStepsMore(f) == f.step < f.num_steps

\* lines 102-103: elapsed = self.runProcessesForDt(dt, verbose=verbose)
ForSteps_Step ==
    /\ At("ForSteps", "loop")
    /\ ForStepsMore(Top)
    /\ stack' = Append([stack EXCEPT ![Depth] = [Top EXCEPT !.pc = "wait"]],
                       Frame("ForDt", Some(Top.dt), 0, 0))
    /\ UNCHANGED <<tNow, dt, tEnd, last, orig, nested, runs, tectVars, extVars>>

\* line 104: elapsed_times.append(elapsed)
ForSteps_Append ==
    /\ At("ForSteps", "returned")
    /\ SetTop([Top EXCEPT !.pc = "loop",
                          !.elapsed_times = Append(@, Elapsed),
                          !.step = @ + 1])
    /\ UNCHANGED <<tNow, dt, tEnd, last, orig, nested, runs, tectVars, extVars>>

\* line 109: return elapsed_times
ForSteps_Return ==
    /\ At("ForSteps", "loop")
    /\ ~ForStepsMore(Top)
    /\ UNCHANGED <<tNow, dt, tEnd, orig, nested, runs, tectVars, extVars>>
    /\ Leave("return", NoExc, Top.elapsed_times)

\* line 103 raised: no handler in runProcessesForSteps, the exception propagates
ForSteps_Propagate ==
    /\ At("ForSteps", "raised")
    /\ UNCHANGED <<tNow, dt, tEnd, orig, nested, runs, tectVars, extVars>>
    /\ Leave("raise", Top.exc, <<>>)

-----------------------------------------------------------------------------
(* EnhancedModel.runProcessesUntilTime, lines 111-151 *)

\* lines 121-122
\* fault variant: a target ahead of the clock is not tested
UntilTimeValid_AheadAccepted(f) == f.target_time >= 0 \/ f.target_time > tNow
\* fault variant: the test is target_time <= 0
UntilTimeValid_ZeroRejected(f) == f.target_time > 0
UntilTimeValid(f) == f.target_time >= 0

UntilTime_Reject ==
    /\ At("UntilTime", "start")
    /\ ~UntilTimeValid(Top)
    /\ UNCHANGED <<tNow, dt, tEnd, orig, nested, runs, tectVars, extVars>>
    /\ Leave("raise", ValueErrorTarget, <<>>)

\* lines 127-130: if target_time <= self.tNow: return []
AlreadyThere(f) == f.target_time <= tNow

UntilTime_Noop ==
    /\ At("UntilTime", "start")
    /\ UntilTimeValid(Top)
    /\ AlreadyThere(Top)
    /\ UNCHANGED <<tNow, dt, tEnd, orig, nested, runs, tectVars, extVars>>
    /\ Leave("return", NoExc, <<>>)

\* lines 124-125: if dt is None: dt = self.dt
UntilTimeDefault(f) == IF f.dtArg.some THEN f.dtArg.v ELSE dt

\* lines 124-125, 132-133: default of dt, empty list, step = 0
UntilTime_Begin ==
    /\ At("UntilTime", "start")
    /\ UntilTimeValid(Top)
    /\ ~AlreadyThere(Top)
    /\ SetTop([Top EXCEPT !.pc = "loop",
                          !.dt = UntilTimeDefault(Top),
                          !.elapsed_times = <<>>,
                          !.step = 0])
    /\ UNCHANGED <<tNow, dt, tEnd, last, orig, nested, runs, tectVars, extVars>>

\* line 138: while self.tNow < target_time
\* fault variant: the loop test is <=
UntilTimeMore_Inclusive(f) == tNow <= f.target_time
UntilTimeMore(f) == tNow < f.target_time

\* lines 140-141: remaining_time = target_time - self.tNow; step_dt = min(dt, remaining_time)
\* fault variant: every step covers the remaining time
StepDt_Remaining(f) == f.target_time - tNow
\* fault variant: the last step is not shortened
StepDt_NotShortened(f) == f.dt
StepDt(f) == Min(f.dt, f.target_time - tNow)

\* lines 143-144: elapsed = self.runProcessesForDt(step_dt, verbose=verbose)
UntilTime_Step ==
    /\ At("UntilTime", "loop")
    /\ UntilTimeMore(Top)
    /\ stack' = Append([stack EXCEPT ![Depth] = [Top EXCEPT !.pc = "wait"]],
                       Frame("ForDt", Some(StepDt(Top)), 0, 0))
    /\ UNCHANGED <<tNow, dt, tEnd, last, orig, nested, runs, tectVars, extVars>>

\* lines 145-147: elapsed_times.append(elapsed); step += 1
UntilTime_Append ==
    /\ At("UntilTime", "returned")
    /\ SetTop([Top EXCEPT !.pc = "loop",
                          !.elapsed_times = Append(@, Elapsed),
                          !.step = @ + 1])
    /\ UNCHANGED <<tNow, dt, tEnd, last, orig, nested, runs, tectVars, extVars>>

\* line 151: return elapsed_times
UntilTime_Return ==
    /\ At("UntilTime", "loop")
    /\ ~UntilTimeMore(Top)
    /\ UNCHANGED <<tNow, dt, tEnd, orig, nested, runs, tectVars, extVars>>
    /\ Leave("return", NoExc, Top.elapsed_times)

\* line 144 raised: no handler in runProcessesUntilTime, the exception propagates
UntilTime_Propagate ==
    /\ At("UntilTime", "raised")
    /\ UNCHANGED <<tNow, dt, tEnd, orig, nested, runs, tectVars, extVars>>
    /\ Leave("raise", Top.exc, <<>>)

-----------------------------------------------------------------------------
(* The wrapped single-step primitive (Model.runProcesses / run_one_step) *)

\* MockModel.runProcesses: self.tNow += self.dt
Advance == tNow + dt

Prim_Advance ==
    /\ At("prim", "start")
    /\ tNow' = Advance
    /\ stack' = Unwind("return", NoExc)
    /\ UNCHANGED <<dt, tEnd, last, orig, nested, runs, tectVars, extVars>>

\* the primitive fails: the exception unwinds into runProcessesForDt
Prim_Raise ==
    /\ At("prim", "start")
    /\ stack' = UnwindFrom([Top EXCEPT !.failed = TRUE], "raise", PrimitiveError)
    /\ UNCHANGED <<tNow, dt, tEnd, last, orig, nested, runs, tectVars, extVars>>

\* the primitive calls back into the controller of the same model (nesting)
Prim_Call(f) ==
    /\ At("prim", "start")
    /\ nested < MaxNested
    /\ nested' = nested + 1
    /\ stack' = Append([stack EXCEPT ![Depth] = [Top EXCEPT !.pc = "wait", !.clean = FALSE]], f)
    /\ UNCHANGED <<tNow, dt, tEnd, last, orig, runs, tectVars, extVars>>

\* the nested call returned: the primitive goes on
Prim_Resume ==
    /\ At("prim", "returned")
    /\ SetTop([Top EXCEPT !.pc = "start"])
    /\ UNCHANGED <<tNow, dt, tEnd, last, orig, nested, runs, tectVars, extVars>>

\* the nested call raised: the primitive does not handle it
Prim_Propagate ==
    /\ At("prim", "raised")
    /\ stack' = Unwind("raise", Top.exc)
    /\ UNCHANGED <<tNow, dt, tEnd, last, orig, nested, runs, tectVars, extVars>>

-----------------------------------------------------------------------------
(* Client calls on an idle model *)

Call(f) ==
    /\ Idle
    /\ tNow <= MaxClock
    /\ Push(f)
    /\ last' = NoLast
    /\ UNCHANGED <<tNow, dt, tEnd, orig, nested, runs, tectVars, extVars>>

\* the calls a client or the primitive can make, with their arguments
Calls ==
    {Frame("ForDt", d, 0, 0) : d \in DtArgs}
    \cup {Frame("ForSteps", d, n, 0) : d \in DtArgs, n \in StepArgs}
    \cup {Frame("UntilTime", d, 0, t) : d \in DtArgs, t \in TargetArgs}

\* test_timing_consistency: one step of dt * 5 is compared with 5 steps of dt
\* and a run to 5000.0, so single steps range over the products n * dt
PlainCalls ==
    Calls \cup {Frame("ForDt", Some(d), 0, 0) : d \in 1..(MaxSteps * MaxDt)}

\* the interval a finished call r was asked to cover when it has one of the
\* three forms runProcessesForDt(n*dt), runProcessesForSteps(n, dt),
\* runProcessesUntilTime(tNow + n*dt, dt) with dt > 0 and n >= 1; 0 otherwise
EquivTotal(r) ==
    IF ~(r.dtArg.some /\ r.dtArg.v > 0) THEN 0
    ELSE IF r.kind = "ForDt" THEN r.dtArg.v
    ELSE IF r.kind = "ForSteps" /\ r.num_steps >= 1 THEN r.num_steps * r.dtArg.v
    ELSE IF r.kind = "UntilTime" /\ r.target_time > r.entry.tNow
            /\ (r.target_time - r.entry.tNow) % r.dtArg.v = 0
         THEN r.target_time - r.entry.tNow
    ELSE 0

Recorded(r) ==
    /\ r.entry = orig
    /\ EquivTotal(r) > 0
    /\ runs.total \in {0, EquivTotal(r)}

\* test_timing_consistency: the client reads the clock of the model it has
\* run (model1.tNow, ...) and constructs the next model from the same
\* configuration (model2 = EnhancedModel("test_config.yml")).
NewModel ==
    /\ Idle
    /\ last.kind # "none"
    /\ runs' = IF Recorded(last)
               THEN [total |-> EquivTotal(last),
                     final |-> [runs.final EXCEPT ![last.kind] = [seen |-> TRUE, clock |-> Clock]]]
               ELSE runs
    /\ tNow' = orig.tNow
    /\ dt' = orig.dt
    /\ tEnd' = orig.tEnd
    /\ last' = NoLast
    /\ UNCHANGED <<stack, orig, nested, tectVars, extVars>>

\* test_timing_consistency: each model is run from the clock it was constructed with
CallOnNewModel(f) ==
    /\ Clock = orig
    /\ Call(f)

\* the calls the primitive makes back into the controller: an invalid single
\* step, a single step with the dt in force, a run up to time 0
NestedCalls ==
    {Frame("ForDt", Some(0), 0, 0), Frame("ForDt", None, 0, 0),
     Frame("UntilTime", None, 0, 0)}

-----------------------------------------------------------------------------
(* DataDrivenTectonics.apply_velocity_data                                  *)
(* (src/gospl_tectonics_ext/data_driven_tectonics.py, lines 17-93)          *)
(*                                                                          *)
(* Coordinates are integer triples taken from a set of points whose mutual  *)
(* Euclidean distances are integers (a 3-4-5 triangle), and the exponent    *)
(* power is a natural number, so distances and weights are exact; a float   *)
(* is modelled as a reduced fraction <<numerator, denominator>>.  Python's  *)
(* 0-based node and sample numbers are 1-based here.                        *)

MaxSamples == 2     \* largest number of rows of a sample set

\* eps = 1.0e-20 (line 58) lies strictly between 0 and every non-zero distance
\* of the model, which are >= 1: distance < eps is distance = 0, and
\* np.maximum(x, eps) is x for every x that is not 0.
BelowEps(d) == d = 0

\* numpy arrays: an absent argument (None), a rank-2 array, a rank-1 array
NoArray == [some |-> FALSE, ndim |-> 0, shape |-> <<>>, rows |-> <<>>]
Array(rows, cols) ==
    [some |-> TRUE, ndim |-> 2, shape |-> <<Len(rows), cols>>, rows |-> rows]
Vector(elems) ==
    [some |-> TRUE, ndim |-> 1, shape |-> <<Len(elems)>>, rows |-> elems]

\* exceptions of apply_velocity_data
ValueErrorMissing == "ValueError: veldata must contain 'coords' and 'vel' arrays"
ValueErrorCoords == "ValueError: coords must be of shape (N, 3)"
ValueErrorVel == "ValueError: vel must be of shape (N, 3)"
ValueErrorRows == "ValueError: coords and vel must have the same number of rows"
ValueErrorEmpty == "ValueError: veldata contains no samples"
IndexErrorNeighbour == "IndexError: index is out of bounds (src_vel[idx])"
CollaboratorError == "RuntimeError: raised by a collaborator"

\* float64 arithmetic on the values of the model: exact fractions
Abs(x) == IF x < 0 THEN -x ELSE x

RECURSIVE GCD(_, _)
GCD(a, b) == IF b = 0 THEN a ELSE GCD(b, a % b)

\* the fraction n / d, d > 0, reduced
Rat(n, d) == <<n \div GCD(Abs(n), d), d \div GCD(Abs(n), d)>>

RAdd(a, b) == Rat(a[1] * b[2] + b[1] * a[2], a[2] * b[2])
RMul(a, b) == Rat(a[1] * b[1], a[2] * b[2])
\* a / b for b > 0
RDiv(a, b) == Rat(a[1] * b[2], a[2] * b[1])

RECURSIVE RSum(_, _)
\* s[1] + ... + s[n]
RSum(s, n) == IF n = 0 THEN <<0, 1>> ELSE RAdd(RSum(s, n - 1), s[n])

\* np.asarray(x, dtype=np.float64) on a row of numbers
AsFloat(row) == [c \in DOMAIN row |-> <<row[c], 1>>]

\* np.zeros: 0.0
Zero == <<0, 1>>

\* the points samples and mesh nodes lie on
Points == {<<0, 0, 0>>, <<4, 0, 0>>, <<0, 3, 0>>}

\* setup_method: self.tectonics.mCoords, self.tectonics.locIDs
MCoords == <<(<<0, 0, 0>>), (<<4, 0, 0>>), (<<0, 3, 0>>)>>
LocIDs == <<3, 1>>

\* the velocity of sample i (setup_method: self.sample_vel, one distinct row per sample)
SampleVel(i) == <<i, 3 - i, 2 * i>>

\* well-formed sample sets of 0..MaxSamples rows
GoodData ==
    UNION {{[coords |-> Array(c, 3), vel |-> Array([i \in 1..n |-> SampleVel(i)], 3)] :
               c \in [1..n -> Points]} : n \in 0..MaxSamples}

\* the sample sets of test_empty_data and test_mismatched_sizes
EmptyData == [coords |-> Array(<<>>, 3), vel |-> Array(<<>>, 3)]
MismatchedData ==
    [coords |-> Array(<<(<<0, 0, 0>>), (<<4, 0, 0>>)>>, 3), vel |-> Array(<<SampleVel(1)>>, 3)]

\* the malformed sample sets of the test suite (test_invalid_input_no_coords,
\* test_invalid_input_no_vel, test_invalid_coords_shape, test_invalid_vel_shape,
\* test_mismatched_sizes) and a rank-1 array
BadData ==
    {[coords |-> NoArray, vel |-> Array(<<SampleVel(1)>>, 3)],
     [coords |-> Array(<<(<<0, 0, 0>>)>>, 3), vel |-> NoArray],
     [coords |-> Array(<<(<<1, 2>>)>>, 2), vel |-> Array(<<SampleVel(1)>>, 3)],
     [coords |-> Array(<<(<<0, 0, 0>>)>>, 3), vel |-> Array(<<(<<1, 2>>)>>, 2)],
     [coords |-> Vector(<<0, 0, 0>>), vel |-> Array(<<SampleVel(1)>>, 3)],
     MismatchedData}

KArgs == 0..(MaxSamples + 1)
Powers == {1, 2}
TimerArgs == {Some(3)}

\* lines 26-47: the checks of the arguments, in order; NoExc when all pass
\* fault variant: an empty sample set is not tested for
Rejected_EmptyAccepted(v) ==
    IF ~v.coords.some \/ ~v.vel.some THEN ValueErrorMissing
    ELSE IF v.coords.ndim # 2 \/ v.coords.shape[2] # 3 THEN ValueErrorCoords
    ELSE IF v.vel.ndim # 2 \/ v.vel.shape[2] # 3 THEN ValueErrorVel
    ELSE IF v.coords.shape[1] # v.vel.shape[1] THEN ValueErrorRows
    ELSE NoExc
Rejected(v) ==
    IF ~v.coords.some \/ ~v.vel.some THEN ValueErrorMissing
    ELSE IF v.coords.ndim # 2 \/ v.coords.shape[2] # 3 THEN ValueErrorCoords
    ELSE IF v.vel.ndim # 2 \/ v.vel.shape[2] # 3 THEN ValueErrorVel
    ELSE IF v.coords.shape[1] # v.vel.shape[1] THEN ValueErrorRows
    ELSE IF v.coords.shape[1] = 0 THEN ValueErrorEmpty
    ELSE NoExc

\* line 48: k = max(1, min(int(k), nsrc))
Max(a, b) == IF a >= b THEN a ELSE b
\* fault variant: a k outside 1..nsrc falls back to the nearest neighbour
KClamp_FallBack(k, nsrc) == IF k < 1 \/ k > nsrc THEN 1 ELSE k
KClamp(k, nsrc) == Max(1, Min(k, nsrc))

\* Euclidean distance of two points
Sq(x) == x * x
Dist2(p, q) == Sq(p[1] - q[1]) + Sq(p[2] - q[2]) + Sq(p[3] - q[3])
Dist(p, q) == CHOOSE r \in 0..Dist2(p, q) : r * r = Dist2(p, q)

\* cKDTree.query: sample j is returned before sample i for the point q;
\* the order of equidistant samples is the index's own (ties)
Before(pts, q, ties, j, i) ==
    \/ Dist(pts[j], q) < Dist(pts[i], q)
    \/ /\ Dist(pts[j], q) = Dist(pts[i], q)
       /\ IF ties = "low" THEN j < i ELSE j > i

\* the array <<f[1], ..., f[n]>>
RECURSIVE Tuple(_, _)
Tuple(f, n) == IF n = 0 THEN <<>> ELSE Append(Tuple(f, n - 1), f[n])

\* the k nearest samples of q, nearest first
Nearest(pts, q, k, ties) ==
    Tuple([r \in 1..k |->
              CHOOSE i \in 1..Len(pts) :
                  Cardinality({j \in 1..Len(pts) : Before(pts, q, ties, j, i)}) = r - 1],
          k)

\* line 52: distances, idx = tree.query(self.mCoords, k=k); for k = 1 the two
\* arrays have one entry per node, otherwise one row of k entries per node
QueryIdx(pts, nodes, k, ties) ==
    Tuple([m \in DOMAIN nodes |->
              IF k = 1 THEN Nearest(pts, nodes[m], k, ties)[1]
              ELSE Nearest(pts, nodes[m], k, ties)],
          Len(nodes))

\* the distances of the neighbours idx names
QueryDistances(pts, nodes, k, idx) ==
    Tuple([m \in DOMAIN nodes |->
              IF k = 1 THEN Dist(pts[idx[m]], nodes[m])
              ELSE Tuple([r \in 1..k |-> Dist(pts[idx[m][r]], nodes[m])], k)],
          Len(nodes))

\* lines 54-56: if k == 1: x = x[:, None]
AddAxis(x, k) == IF k = 1 THEN Tuple([m \in DOMAIN x |-> <<x[m]>>], Len(x)) ELSE x

RECURSIVE Pow(_, _)
Pow(d, p) == IF p = 0 THEN 1 ELSE d * Pow(d, p - 1)

\* line 60: weights = 1.0 / np.maximum(distances, eps), for a distance d >= 1
WeightLinear(d) == <<1, d>>

\* line 62: weights = 1.0 / np.maximum(distances, eps) ** power
WeightGeneral(d, power) == <<1, Pow(d, power)>>

\* lines 59-62: the weight of a neighbour at distance d >= 1
\* fault variant: the exponent is not applied
Weight_PowerIgnored(d, power) == WeightLinear(d)
Weight(d, power) ==
    IF power = 1 THEN WeightLinear(d)
    ELSE WeightGeneral(d, power)

\* lines 64-67: np.sum(ws * neigh_vel, axis=1) / np.maximum(wsum, eps) for one
\* node, given its row of distances and of neighbours (wsum > eps)
Blend(ds, ids, src_vel, power) ==
    [c \in 1..3 |->
        RDiv(RSum([r \in DOMAIN ds |-> RMul(Weight(ds[r], power), src_vel[ids[r]][c])], Len(ds)),
             RSum([r \in DOMAIN ds |-> Weight(ds[r], power)], Len(ds)))]

\* line 69: onIDs = np.where(distances[:, 0] < eps)[0]
OnIDs(distances) == {m \in DOMAIN distances : BelowEps(distances[m][1])}

\* line 71: v_interp[onIDs] = src_vel[idx[onIDs, 0]]
\* fault variant: the last neighbour's column is read
CoincidentValue_LastColumn(ids, src_vel) == src_vel[ids[Len(ids)]]
CoincidentValue(ids, src_vel) == src_vel[ids[1]]

\* lines 51-71: the interpolated field at all mesh nodes; the blended value
\* of a node in onIDs is overwritten at line 71
Interpolate(src_pts, src_vel, nodes, k, power, ties) ==
    LET found == QueryIdx(src_pts, nodes, k, ties)
        distances == AddAxis(QueryDistances(src_pts, nodes, k, found), k)
        idx == AddAxis(found, k)
        onIDs == OnIDs(distances)
    IN  Tuple([m \in DOMAIN nodes |->
                  IF m \in onIDs THEN CoincidentValue(idx[m], src_vel)
                  ELSE Blend(distances[m], idx[m], src_vel, power)],
              Len(nodes))

\* lines 74-75: v_interp[self.locIDs, :].copy(), v_interp[self.locIDs, 2].copy()
\* fault variant: the leading rows are taken instead of the rows at locIDs
LocalRows_Leading(v_interp, locIDs) == [i \in DOMAIN locIDs |-> v_interp[i]]
LocalRows(v_interp, locIDs) == [i \in DOMAIN locIDs |-> v_interp[locIDs[i]]]
LocalVertical(v_interp, locIDs) == [i \in DOMAIN locIDs |-> v_interp[locIDs[i]][3]]

\* line 78: if self.advscheme == 0
\* fault variant: the test is inverted
SemiLagrangian_Inverted(advscheme) == advscheme # 0
SemiLagrangian(advscheme) == advscheme = 0

\* lines 79-80: if timer is None: timer = self.dt
TimerDefault(timer) == IF timer.some THEN timer.v ELSE dt

\* line 81: the field handed to self._readAdvectionData
\* fault variant: the local rows are handed over
StagedField_Local(v_interp, locIDs) == LocalRows(v_interp, locIDs)
StagedField(v_interp, locIDs) == v_interp

\* lines 85-89: nodeVel = np.zeros((self.lpoints, 3)); flat: nodeVel[:, :2] =
\* self.hdisp[:, :2]; otherwise nodeVel = self.hdisp.copy()
\* fault variant: the flat branch copies the three columns
NodeVel_AllColumns(lpoints, flatModel, hd) == hd
NodeVel(lpoints, flatModel, hd) ==
    IF flatModel THEN [i \in 1..lpoints |-> <<hd[i][1], hd[i][2], Zero>>]
    ELSE hd

\* the four fields of the object apply_velocity_data writes
Fields == [hdisp |-> hdisp, upsub |-> upsub, plateStep |-> plateStep, plateTimer |-> plateTimer]

\* MockTectonics.__init__: hdisp = None, upsub = None, plateStep = False, plateTimer = 0.0
Constructed ==
    [hdisp |-> NoArray, upsub |-> NoArray, plateStep |-> FALSE, plateTimer |-> 0]

NoData == [coords |-> NoArray, vel |-> NoArray]

IdleAct ==
    [pc |-> "idle", veldata |-> NoData, timerArg |-> None, timer |-> None, k |-> 0,
     power |-> 0, v_interp |-> <<>>, entry |-> Constructed]

NoSummary ==
    [veldata |-> NoData, timer |-> None, k |-> 0, power |-> 0,
     outcome |-> "none", err |-> NoExc,
     before |-> Constructed, after |-> Constructed, colls |-> <<>>, v_interp |-> <<>>]

NoSeen == [last |-> NoSummary, prev |-> NoSummary]

\* a collaborator call: its name, the array and the number it is handed
CollCall(name, field, num) == [name |-> name, field |-> field, num |-> num]

\* the call returns or raises: the client sees the fields of the next state
Finish(outcome, err) ==
    /\ act' = IdleAct
    /\ seen' = [prev |-> seen.last,
                last |-> [veldata |-> act.veldata, timer |-> act.timerArg, k |-> act.k,
                          power |-> act.power, outcome |-> outcome, err |-> err,
                          before |-> act.entry,
                          after |-> [hdisp |-> hdisp', upsub |-> upsub',
                                     plateStep |-> plateStep', plateTimer |-> plateTimer'],
                          colls |-> colls', v_interp |-> act.v_interp]]

Invoke(v, timer, k, power) ==
    /\ act.pc = "idle"
    /\ act' = [pc |-> "start", veldata |-> v, timerArg |-> timer, timer |-> timer, k |-> k,
               power |-> power, v_interp |-> <<>>, entry |-> Fields]
    /\ colls' = <<>>
    /\ UNCHANGED <<tNow, dt, tEnd, stack, last, orig, nested, runs, extVars>>
    /\ UNCHANGED <<mesh, hdisp, upsub, plateStep, plateTimer, seen>>

\* python's defaults: apply_velocity_data(veldata, timer=None, k=3, power=1.0)
DefaultK == 3
DefaultPower == 1

\* the first call on the object as constructed: a well-formed sample set with
\* any k and either any power or any timer, or a malformed one with the defaults
Apply_Call ==
    /\ act.pc = "idle"
    /\ seen.last.outcome = "none"
    /\ \/ \E v \in GoodData, k \in KArgs, power \in Powers : Invoke(v, None, k, power)
       \/ \E v \in GoodData, k \in KArgs, timer \in TimerArgs :
             Invoke(v, timer, k, DefaultPower)
       \/ \E v \in BadData : Invoke(v, None, DefaultK, DefaultPower)

\* test_k_parameter_bounds: a second call on the same object after the first
\* has returned; the client passes the same sample set with a k within the
\* sample count after a k outside it, or an empty or mismatched one, and the
\* same timer and power
Apply_CallAgain ==
    /\ act.pc = "idle"
    /\ seen.last.outcome = "return"
    /\ seen.prev.outcome = "none"
    /\ \/ /\ seen.last.k \notin 1..seen.last.veldata.coords.shape[1]
          /\ \E k \in 1..MaxSamples :
                Invoke(seen.last.veldata, seen.last.timer, k, seen.last.power)
       \/ \E v \in {EmptyData, MismatchedData} :
             Invoke(v, seen.last.timer, seen.last.k, seen.last.power)

\* lines 26-47: a check fails
Apply_Reject ==
    /\ act.pc = "start"
    /\ Rejected(act.veldata) # NoExc
    /\ UNCHANGED <<tNow, dt, tEnd, stack, last, orig, nested, runs, extVars>>
    /\ UNCHANGED <<mesh, hdisp, upsub, plateStep, plateTimer, colls>>
    /\ Finish("raise", Rejected(act.veldata))

\* lines 36-71: the caller's arrays after the conversion, the construction of
\* the index and the query.  np.asarray hands back the caller's own array when
\* it is a float64 array already; cKDTree and src_vel[idx] read the rows, and
\* every assignment of these lines is to a fresh array (weights, v_interp).
\* fault variant: the index is built by reordering the sample rows in place
SamplesAfterQuery_Reordered(v) ==
    [v EXCEPT !.coords.rows = [i \in DOMAIN @ |-> @[Len(@) + 1 - i]]]
SamplesAfterQuery(v) == v

\* lines 36-75: conversion, clamp of k, query, weights, override, store
Apply_Interpolate ==
    /\ act.pc = "start"
    /\ Rejected(act.veldata) = NoExc
    /\ LET src_pts == act.veldata.coords.rows
           src_vel == Tuple([i \in DOMAIN act.veldata.vel.rows |->
                                 AsFloat(act.veldata.vel.rows[i])], Len(act.veldata.vel.rows))
           nsrc == act.veldata.coords.shape[1]
           k == KClamp(act.k, nsrc)
       IN  IF k <= nsrc
           THEN LET v_interp == Interpolate(src_pts, src_vel, mesh.mCoords, k, act.power, mesh.ties)
                IN  /\ hdisp' = Array(LocalRows(v_interp, mesh.locIDs), 3)
                    /\ upsub' = Vector(LocalVertical(v_interp, mesh.locIDs))
                    /\ act' = [act EXCEPT !.pc = "route", !.v_interp = v_interp,
                                           !.veldata = SamplesAfterQuery(act.veldata)]
                    /\ UNCHANGED <<plateStep, plateTimer, colls, seen>>
           \* the index has fewer than k samples: idx holds nsrc for the missing
           \* neighbours and line 64 raises
           ELSE /\ UNCHANGED <<hdisp, upsub, plateStep, plateTimer, colls>>
                /\ Finish("raise", IndexErrorNeighbour)
    /\ UNCHANGED <<tNow, dt, tEnd, stack, last, orig, nested, runs, mesh, extVars>>

\* lines 79-81: self._readAdvectionData(v_interp, timer) is called and returns
Apply_Stage ==
    /\ act.pc = "route"
    /\ SemiLagrangian(mesh.advscheme)
    /\ colls' = Append(colls, CollCall("_readAdvectionData",
                                       StagedField(act.v_interp, mesh.locIDs),
                                       TimerDefault(act.timer)))
    /\ act' = [act EXCEPT !.pc = "staged", !.timer = Some(TimerDefault(act.timer))]
    /\ UNCHANGED <<tNow, dt, tEnd, stack, last, orig, nested, runs, extVars>>
    /\ UNCHANGED <<mesh, hdisp, upsub, plateStep, plateTimer, seen>>

\* fault variant: the schedule is written before the collaborator is called
Apply_Stage_Raise_ScheduledFirst ==
    /\ act.pc = "route"
    /\ SemiLagrangian(mesh.advscheme)
    /\ colls' = Append(colls, CollCall("_readAdvectionData",
                                       StagedField(act.v_interp, mesh.locIDs),
                                       TimerDefault(act.timer)))
    /\ plateStep' = TRUE
    /\ plateTimer' = tNow + TimerDefault(act.timer)
    /\ UNCHANGED <<tNow, dt, tEnd, stack, last, orig, nested, runs, extVars>>
    /\ UNCHANGED <<mesh, hdisp, upsub>>
    /\ Finish("raise", CollaboratorError)

\* line 81: self._readAdvectionData raises; nothing handles it
Apply_Stage_Raise ==
    /\ act.pc = "route"
    /\ SemiLagrangian(mesh.advscheme)
    /\ colls' = Append(colls, CollCall("_readAdvectionData",
                                       StagedField(act.v_interp, mesh.locIDs),
                                       TimerDefault(act.timer)))
    /\ UNCHANGED <<tNow, dt, tEnd, stack, last, orig, nested, runs, extVars>>
    /\ UNCHANGED <<mesh, hdisp, upsub, plateStep, plateTimer>>
    /\ Finish("raise", CollaboratorError)

\* lines 82-83, 93: self.plateStep = True; self.plateTimer = self.tNow + timer; return
Apply_Schedule ==
    /\ act.pc = "staged"
    /\ plateStep' = TRUE
    /\ plateTimer' = tNow + act.timer.v
    /\ UNCHANGED <<tNow, dt, tEnd, stack, last, orig, nested, runs, extVars>>
    /\ UNCHANGED <<mesh, hdisp, upsub, colls>>
    /\ Finish("return", NoExc)

\* lines 85-90: getfacevelocity(self.lpoints, nodeVel) is called and returns
Apply_FaceVelocity ==
    /\ act.pc = "route"
    /\ ~SemiLagrangian(mesh.advscheme)
    /\ colls' = Append(colls, CollCall("getfacevelocity",
                                       NodeVel(mesh.lpoints, mesh.flatModel, hdisp.rows),
                                       mesh.lpoints))
    /\ act' = [act EXCEPT !.pc = "advect"]
    /\ UNCHANGED <<tNow, dt, tEnd, stack, last, orig, nested, runs, extVars>>
    /\ UNCHANGED <<mesh, hdisp, upsub, plateStep, plateTimer, seen>>

\* line 90: getfacevelocity raises
Apply_FaceVelocity_Raise ==
    /\ act.pc = "route"
    /\ ~SemiLagrangian(mesh.advscheme)
    /\ colls' = Append(colls, CollCall("getfacevelocity",
                                       NodeVel(mesh.lpoints, mesh.flatModel, hdisp.rows),
                                       mesh.lpoints))
    /\ UNCHANGED <<tNow, dt, tEnd, stack, last, orig, nested, runs, extVars>>
    /\ UNCHANGED <<mesh, hdisp, upsub, plateStep, plateTimer>>
    /\ Finish("raise", CollaboratorError)

\* lines 91, 93: self._varAdvector() is called and returns; return
Apply_VarAdvector ==
    /\ act.pc = "advect"
    /\ colls' = Append(colls, CollCall("_varAdvector", <<>>, 0))
    /\ UNCHANGED <<tNow, dt, tEnd, stack, last, orig, nested, runs, extVars>>
    /\ UNCHANGED <<mesh, hdisp, upsub, plateStep, plateTimer>>
    /\ Finish("return", NoExc)

\* line 91: self._varAdvector raises
Apply_VarAdvector_Raise ==
    /\ act.pc = "advect"
    /\ colls' = Append(colls, CollCall("_varAdvector", <<>>, 0))
    /\ UNCHANGED <<tNow, dt, tEnd, stack, last, orig, nested, runs, extVars>>
    /\ UNCHANGED <<mesh, hdisp, upsub, plateStep, plateTimer>>
    /\ Finish("raise", CollaboratorError)

\* MockTectonics.__init__ and setup_method: the object before the first call
DefaultMesh ==
    [mCoords |-> MCoords, locIDs |-> LocIDs, lpoints |-> Len(LocIDs),
     flatModel |-> TRUE, advscheme |-> 0, ties |-> "low"]

\* the mesh flags of test_advscheme_zero, test_advscheme_nonzero and
\* test_spherical_model, with either order of equidistant samples
Meshes ==
    {[DefaultMesh EXCEPT !.flatModel = f[1], !.advscheme = f[2], !.ties = t] :
        f \in {<<TRUE, 0>>, <<TRUE, 1>>, <<FALSE, 1>>}, t \in {"low", "high"}}

TectConstructed ==
    /\ hdisp = Constructed.hdisp
    /\ upsub = Constructed.upsub
    /\ plateStep = Constructed.plateStep
    /\ plateTimer = Constructed.plateTimer
    /\ act = IdleAct
    /\ colls = <<>>
    /\ seen = NoSeen

-----------------------------------------------------------------------------
(* DataDrivenTectonics.interpolate_elevation_to_points, the interpolation   *)
(* of the elevation field hGlobal at external points (interpolateScalarField *)
(* of spec.md, section 4.1).  The method is called by                       *)
(* src/cpp_interface/cpp_interface/gospl_python_interface.py and by         *)
(* src/tests/test_data_driven_tectonics.py; its body is written here from   *)
(* spec.md and from the error messages its tests expect.  The samples are   *)
(* the mesh nodes with their elevations, the query points are the argument. *)

MaxQuery == 2       \* largest number of query points of a call

\* test_interpolate_elevation_to_points_basic: hGlobal.getArray(), one value per mesh node
HGlobal == <<10, 15, 20>>

ValueErrorQuery == "ValueError: src_pts must be of shape (N, 3)"
ValueErrorNoPoints == "ValueError: src_pts contains no points"

\* the points a client asks for: the mesh nodes and a point off the mesh
QueryPoints == Points \cup {<<4, 3, 0>>}

\* arrays of shape (M, 3), M in 0..MaxQuery
GoodQueries ==
    UNION {{Array(c, 3) : c \in [1..n -> QueryPoints]} : n \in 0..MaxQuery}

\* test_interpolate_elevation_invalid_input_shape: np.array([[1, 2]]),
\* np.array([1, 2, 3]); and an array of shape (0, 2)
BadQueries == {Array(<<(<<1, 2>>)>>, 2), Vector(<<1, 2, 3>>), Array(<<>>, 2)}

ElevKArgs == 0..(Len(MCoords) + 1)

\* the checks of the query points, in the order spec.md lists them
\* fault variant: an empty query set is not tested for
RejectedQuery_EmptyAccepted(q) ==
    IF q.ndim # 2 \/ q.shape[2] # 3 THEN ValueErrorQuery
    ELSE NoExc
RejectedQuery(q) ==
    IF q.ndim # 2 \/ q.shape[2] # 3 THEN ValueErrorQuery
    ELSE IF q.shape[1] = 0 THEN ValueErrorNoPoints
    ELSE NoExc

\* the weighted average of the neighbours' scalar values for one query point
BlendScalar(ds, ids, values, power) ==
    RDiv(RSum([r \in DOMAIN ds |-> RMul(Weight(ds[r], power), <<values[ids[r]], 1>>)], Len(ds)),
         RSum([r \in DOMAIN ds |-> Weight(ds[r], power)], Len(ds)))

\* the same algorithm as lines 51-71 of apply_velocity_data, on scalars
InterpolateScalar(src_pts, values, queries, k, power, ties) ==
    LET found == QueryIdx(src_pts, queries, k, ties)
        distances == AddAxis(QueryDistances(src_pts, queries, k, found), k)
        idx == AddAxis(found, k)
        onIDs == OnIDs(distances)
    IN  Tuple([m \in DOMAIN queries |->
                  IF m \in onIDs THEN <<values[idx[m][1]], 1>>
                  ELSE BlendScalar(distances[m], idx[m], values, power)],
              Len(queries))

\* interpolate_elevation_to_points(src_pts, k=3, power=1.0) on an object with
\* the mesh m: what it raises or returns
ElevationOn(m, q, k, power) ==
    IF RejectedQuery(q) # NoExc
    THEN [outcome |-> "raise", err |-> RejectedQuery(q), result |-> NoArray]
    ELSE [outcome |-> "return", err |-> NoExc,
          result |-> Vector(InterpolateScalar(m.mCoords, HGlobal, q.rows,
                                              KClamp(k, Len(m.mCoords)), power, m.ties))]

ElevationToPoints(q, k, power) == ElevationOn(mesh, q, k, power)

NoElev ==
    [coords |-> NoArray, k |-> 0, power |-> 0,
     outcome |-> "none", err |-> NoExc, result |-> NoArray]

\* a client calls the method on the object and sees what it raises or returns
Elev_Call ==
    /\ elev.outcome = "none"
    /\ \E q \in GoodQueries \cup BadQueries, k \in ElevKArgs, power \in Powers :
          LET got == ElevationToPoints(q, k, power)
          IN  elev' = [coords |-> q, k |-> k, power |-> power,
                       outcome |-> got.outcome, err |-> got.err, result |-> got.result]
    /\ UNCHANGED <<tNow, dt, tEnd, stack, last, orig, nested, runs, tectVars>>
    /\ UNCHANGED <<models, next_handle, api, ret, issued, destroyed>>

-----------------------------------------------------------------------------
(* src/cpp_interface/cpp_interface/gospl_python_interface.py: the handle    *)
(* registry and the wrappers the C++ side calls.  A stored model is the     *)
(* record of the fields the methods read and write; while a wrapper runs a  *)
(* method, the model it looked up is the one bound to tNow, dt, tEnd,       *)
(* hdisp, upsub, plateStep, plateTimer, and the wrapper's return puts the   *)
(* fields back into the registry entry.                                     *)

MaxHandles == 2     \* largest number of models create_enhanced_model registers

\* what a wrapper returns: a Python int, a float, a measured time, None
IntVal(n) == [type |-> "int", v |-> n]
FloatVal(x) == [type |-> "float", v |-> x]
ElapsedVal == [type |-> "elapsed", v |-> 0]
NoneVal == [type |-> "none", v |-> 0]

ReshapeError == "ValueError: cannot reshape array"
DestroyError == "RuntimeError: raised by model.destroy()"
ConstructorError == "Exception: raised by EnhancedModel(config_path)"
AttributeErrorElevation ==
    "AttributeError: DataDrivenTectonics has no attribute interpolate_elevation_to_points"

RunWrappers == {"run_processes_for_dt", "run_processes_for_steps", "run_processes_until_time"}

\* the method a run wrapper calls (lines 121, 149, 177)
WrapperOf(kind) ==
    CASE kind = "ForDt" -> "run_processes_for_dt"
      [] kind = "ForSteps" -> "run_processes_for_steps"
      [] kind = "UntilTime" -> "run_processes_until_time"

\* the error value of each function: lines 73, 97, 99, 118, 126, 146, 154,
\* 174, 182, 206, 226, 243, 249, 266, 272, 292, 309
ErrorValue(fn) ==
    IF fn \in {"run_processes_for_dt", "get_current_time", "get_time_step"} THEN FloatVal(-1)
    ELSE IF fn = "interpolate_elevation_to_points" THEN NoneVal
    ELSE IntVal(-1)

\* except Exception as e: print(...); return <error value>
\* fault variant: the wrapper has no handler and the error leaves it
Handled_Propagating(fn, err) == [outcome |-> "raise", value |-> NoneVal]
Handled(fn, err) == [outcome |-> "return", value |-> ErrorValue(fn)]

\* handle in _models
Registered(h) == h \in DOMAIN models

\* _models[handle] = model
Store(m, h, x) == [key \in DOMAIN m \cup {h} |-> IF key = h THEN x ELSE m[key]]

\* del _models[handle]
\* fault variant: the entry is not deleted
Remove_Kept(m, h) == m
Remove(m, h) == [key \in DOMAIN m \ {h} |-> m[key]]

\* line 65: handle = _next_handle
\* fault variant: handles count from zero
HandleIssued_FromZero == next_handle - 1
HandleIssued == next_handle

\* line 67: _next_handle += 1
\* fault variant: the counter is not advanced
CounterAfter_Kept(n) == n
CounterAfter(n) == n + 1

\* lines 60-62 read DataDrivenTectonics.interpolate_elevation_to_points and
\* raise AttributeError without it: the class has the method (spec.md, section 4.1)
HasElevationMethod == TRUE

\* line 54: the model EnhancedModel(config_path) builds; its clock is the
\* configuration's, its tectonics fields are as constructed
ConstructedModel ==
    [tNow |-> orig.tNow, dt |-> orig.dt, tEnd |-> orig.tEnd,
     hdisp |-> Constructed.hdisp, upsub |-> Constructed.upsub,
     plateStep |-> Constructed.plateStep, plateTimer |-> Constructed.plateTimer]

\* the registry and its counter
Snapshot == [models |-> models, next_handle |-> next_handle]

NoArgs == [dt |-> 0, num_steps |-> 0, target_time |-> 0, num_points |-> 0, constructed |-> FALSE]

\* what a wrapper saw of the method it called
NoMethod == [outcome |-> "none", err |-> NoExc, steps |-> 0, inv |-> 0, tNow |-> 0]

NoApi == [fn |-> "none", handle |-> 0, args |-> NoArgs, before |-> [models |-> <<>>, next_handle |-> 1]]

NoRet ==
    [fn |-> "none", handle |-> 0, args |-> NoArgs, registered |-> FALSE, called |-> FALSE,
     method |-> NoMethod, outcome |-> "none", value |-> NoneVal, array |-> NoArray,
     before |-> [models |-> <<>>, next_handle |-> 1]]

ApiIdle == api.fn = "none" /\ Idle /\ act.pc = "idle"

\* the function leaves: the C++ side sees outcome and value
Finished(fn, h, args, before, called, method, outcome, value, array) ==
    /\ api' = NoApi
    /\ ret' = [fn |-> fn, handle |-> h, args |-> args,
               registered |-> h \in DOMAIN before.models, called |-> called,
               method |-> method, outcome |-> outcome, value |-> value, array |-> array,
               before |-> before]

\* no method is bound once the wrapper has left: the fields are the configuration's
Unbound ==
    /\ tNow' = orig.tNow
    /\ dt' = orig.dt
    /\ tEnd' = orig.tEnd
    /\ hdisp' = Constructed.hdisp
    /\ upsub' = Constructed.upsub
    /\ plateStep' = Constructed.plateStep
    /\ plateTimer' = Constructed.plateTimer
    /\ last' = NoLast
    /\ colls' = <<>>
    /\ seen' = NoSeen

\* the handles the C++ side passes: the ones issued and one never issued
ApiHandles == 1..(MaxHandles + 1)

\* create_enhanced_model, lines 40-73
Api_Create ==
    /\ ApiIdle
    /\ next_handle <= MaxHandles
    /\ \E constructed \in BOOLEAN :
          LET args == [NoArgs EXCEPT !.constructed = constructed]
          IN  IF constructed /\ HasElevationMethod
              THEN /\ models' = Store(models, HandleIssued, ConstructedModel)
                   /\ next_handle' = CounterAfter(next_handle)
                   /\ issued' = Append(issued, HandleIssued)
                   /\ Finished("create_enhanced_model", 0, args, Snapshot, FALSE, NoMethod,
                               "return", IntVal(HandleIssued), NoArray)
              ELSE /\ UNCHANGED <<models, next_handle, issued>>
                   /\ LET r == Handled("create_enhanced_model",
                                       IF constructed THEN AttributeErrorElevation
                                       ELSE ConstructorError)
                      IN  Finished("create_enhanced_model", 0, args, Snapshot, FALSE, NoMethod,
                                   r.outcome, r.value, NoArray)
    /\ UNCHANGED <<tNow, dt, tEnd, stack, last, orig, nested, runs, tectVars, elev, destroyed>>

\* destroy_model, lines 76-99: model.destroy() is absent or returns, or raises
Api_Destroy ==
    /\ ApiIdle
    /\ \E h \in ApiHandles, raises \in BOOLEAN :
          IF ~Registered(h)
          THEN /\ ~raises
               /\ UNCHANGED <<models, destroyed>>
               /\ Finished("destroy_model", h, NoArgs, Snapshot, FALSE, NoMethod,
                           "return", ErrorValue("destroy_model"), NoArray)
          ELSE IF raises
          THEN /\ UNCHANGED <<models, destroyed>>
               /\ LET r == Handled("destroy_model", DestroyError)
                  IN  Finished("destroy_model", h, NoArgs, Snapshot, TRUE,
                               [NoMethod EXCEPT !.outcome = "raise", !.err = DestroyError],
                               r.outcome, r.value, NoArray)
          ELSE /\ models' = Remove(models, h)
               /\ destroyed' = destroyed \cup {h}
               /\ Finished("destroy_model", h, NoArgs, Snapshot, TRUE,
                           [NoMethod EXCEPT !.outcome = "return"],
                           "return", IntVal(0), NoArray)
    /\ UNCHANGED <<tNow, dt, tEnd, stack, last, orig, nested, runs, tectVars>>
    /\ UNCHANGED <<elev, next_handle, issued>>

\* get_current_time, lines 229-249
Api_GetCurrentTime ==
    /\ ApiIdle
    /\ \E h \in ApiHandles :
          Finished("get_current_time", h, NoArgs, Snapshot, FALSE, NoMethod, "return",
                   IF Registered(h) THEN FloatVal(models[h].tNow)
                   ELSE ErrorValue("get_current_time"), NoArray)
    /\ UNCHANGED <<tNow, dt, tEnd, stack, last, orig, nested, runs, tectVars>>
    /\ UNCHANGED <<elev, models, next_handle, issued, destroyed>>

\* get_time_step, lines 252-272
Api_GetTimeStep ==
    /\ ApiIdle
    /\ \E h \in ApiHandles :
          Finished("get_time_step", h, NoArgs, Snapshot, FALSE, NoMethod, "return",
                   IF Registered(h) THEN FloatVal(models[h].dt)
                   ELSE ErrorValue("get_time_step"), NoArray)
    /\ UNCHANGED <<tNow, dt, tEnd, stack, last, orig, nested, runs, tectVars>>
    /\ UNCHANGED <<elev, models, next_handle, issued, destroyed>>

\* the dt, num_steps and target_time the C++ side passes; dt is always a number
ApiDtArgs == {0, MaxDt}
ApiStepArgs == {0, MaxSteps}
ApiTargetArgs == {-1, 0, MaxTarget - 1}

ApiRunCalls ==
    {Frame("ForDt", Some(d), 0, 0) : d \in ApiDtArgs}
    \cup {Frame("ForSteps", Some(d), n, 0) : d \in ApiDtArgs, n \in ApiStepArgs}
    \cup {Frame("UntilTime", Some(d), 0, t) : d \in ApiDtArgs, t \in ApiTargetArgs}

RunArgs(f) ==
    [NoArgs EXCEPT !.dt = f.dtArg.v, !.num_steps = f.num_steps, !.target_time = f.target_time]

\* lines 117-118, 145-146, 173-174: the handle is not registered; the other
\* arguments are not looked at
Api_Run_NoModel ==
    /\ ApiIdle
    /\ \E h \in ApiHandles, fn \in RunWrappers :
          /\ ~Registered(h)
          /\ Finished(fn, h, NoArgs, Snapshot, FALSE, NoMethod,
                      "return", ErrorValue(fn), NoArray)
    /\ UNCHANGED <<tNow, dt, tEnd, stack, last, orig, nested, runs, tectVars>>
    /\ UNCHANGED <<elev, models, next_handle, issued, destroyed>>

\* the C++ side drives one model at a time: the other registered models are
\* as constructed
Driven(h) ==
    /\ Registered(h)
    /\ \A g \in DOMAIN models \ {h} : models[g] = ConstructedModel

\* a client steps a model it has not stepped past MaxClock
Steppable(h) == Driven(h) /\ models[h].tNow <= MaxClock

\* lines 120-121, 148-149, 176-177: model = _models[handle]; the method is called
Api_Run_Call ==
    /\ ApiIdle
    /\ \E h \in ApiHandles, f \in ApiRunCalls :
          /\ Steppable(h)
          /\ tNow' = models[h].tNow
          /\ dt' = models[h].dt
          /\ tEnd' = models[h].tEnd
          /\ stack' = <<[f EXCEPT !.entry = [tNow |-> models[h].tNow, dt |-> models[h].dt,
                                              tEnd |-> models[h].tEnd]]>>
          /\ api' = [fn |-> WrapperOf(f.kind), handle |-> h, args |-> RunArgs(f),
                     before |-> Snapshot]
    /\ last' = NoLast
    /\ ret' = NoRet
    /\ UNCHANGED <<orig, nested, runs, tectVars>>
    /\ UNCHANGED <<elev, models, next_handle, issued, destroyed>>

\* lines 122, 150, 178: return elapsed / return len(elapsed_times);
\* lines 124-126, 152-154, 180-182: the handler
Api_Run_Return ==
    /\ api.fn \in RunWrappers
    /\ Idle
    /\ last.kind # "none"
    /\ models' = [models EXCEPT ![api.handle] =
                     [@ EXCEPT !.tNow = tNow, !.dt = dt, !.tEnd = tEnd]]
    /\ LET r == IF last.outcome = "return"
                THEN [outcome |-> "return",
                      value |-> IF last.kind = "ForDt" THEN ElapsedVal
                                ELSE IntVal(Len(last.result))]
                ELSE Handled(api.fn, last.err)
           method == [outcome |-> last.outcome, err |-> last.err,
                      steps |-> IF last.kind = "ForDt" THEN 0 ELSE Len(last.result),
                      inv |-> last.inv, tNow |-> last.entry.tNow]
       IN  Finished(api.fn, api.handle, api.args, api.before, TRUE, method,
                    r.outcome, r.value, NoArray)
    /\ Unbound
    /\ UNCHANGED <<stack, orig, nested, runs, mesh, act>>
    /\ UNCHANGED <<elev, next_handle, issued, destroyed>>

\* the flat arrays and the num_points the C++ side passes to apply_velocity_data:
\* one sample, no sample, one sample announced as two
ApiSamples ==
    {[coords |-> <<0, 0, 0>>, velocities |-> <<1, 2, 2>>, num_points |-> 1],
     [coords |-> <<>>, velocities |-> <<>>, num_points |-> 0],
     [coords |-> <<0, 0, 0>>, velocities |-> <<1, 2, 2>>, num_points |-> 2]}

ApiTimers == {3}

\* np.array(flat).reshape(n, 3): raises unless the array has 3 n elements
Reshapes(flat, n) == n >= 0 /\ Len(flat) = 3 * n
Reshape(flat, n) ==
    Array(Tuple([i \in 1..n |-> <<flat[3 * i - 2], flat[3 * i - 1], flat[3 * i]>>], n), 3)

ApplyArgs(s) == [NoArgs EXCEPT !.num_points = s.num_points]

\* a client applies a velocity field to a model that has none
Appliable(h) == Driven(h) /\ ~models[h].hdisp.some

\* apply_velocity_data, lines 205-212, 224-226: the handle is not registered,
\* or a reshape raises
Api_Apply_Early ==
    /\ ApiIdle
    /\ \E h \in ApiHandles, s \in ApiSamples :
          IF ~Registered(h)
          THEN Finished("apply_velocity_data", h, NoArgs, Snapshot, FALSE, NoMethod,
                        "return", ErrorValue("apply_velocity_data"), NoArray)
          ELSE /\ ~(Reshapes(s.coords, s.num_points) /\ Reshapes(s.velocities, s.num_points))
               /\ LET r == Handled("apply_velocity_data", ReshapeError)
                  IN  Finished("apply_velocity_data", h, ApplyArgs(s), Snapshot, FALSE,
                               [NoMethod EXCEPT !.err = ReshapeError],
                               r.outcome, r.value, NoArray)
    /\ UNCHANGED <<tNow, dt, tEnd, stack, last, orig, nested, runs, tectVars>>
    /\ UNCHANGED <<elev, models, next_handle, issued, destroyed>>

\* lines 208-221: model = _models[handle]; the arrays are reshaped and
\* model.apply_velocity_data(veldata, timer=timer, k=k, power=power) is called
Api_Apply_Call ==
    /\ ApiIdle
    /\ \E h \in ApiHandles, s \in ApiSamples, timer \in ApiTimers :
          /\ Appliable(h)
          /\ Reshapes(s.coords, s.num_points) /\ Reshapes(s.velocities, s.num_points)
          /\ tNow' = models[h].tNow
          /\ dt' = models[h].dt
          /\ tEnd' = models[h].tEnd
          /\ hdisp' = models[h].hdisp
          /\ upsub' = models[h].upsub
          /\ plateStep' = models[h].plateStep
          /\ plateTimer' = models[h].plateTimer
          /\ act' = [pc |-> "start",
                     veldata |-> [coords |-> Reshape(s.coords, s.num_points),
                                  vel |-> Reshape(s.velocities, s.num_points)],
                     timerArg |-> Some(timer), timer |-> Some(timer),
                     k |-> DefaultK, power |-> DefaultPower, v_interp |-> <<>>,
                     entry |-> [hdisp |-> models[h].hdisp, upsub |-> models[h].upsub,
                                plateStep |-> models[h].plateStep,
                                plateTimer |-> models[h].plateTimer]]
          /\ api' = [fn |-> "apply_velocity_data", handle |-> h, args |-> ApplyArgs(s),
                     before |-> Snapshot]
    /\ colls' = <<>>
    /\ seen' = NoSeen
    /\ ret' = NoRet
    /\ UNCHANGED <<stack, last, orig, nested, runs, mesh>>
    /\ UNCHANGED <<elev, models, next_handle, issued, destroyed>>

\* lines 222, 224-226: return 0, or the handler
Api_Apply_Return ==
    /\ api.fn = "apply_velocity_data"
    /\ act.pc = "idle"
    /\ seen.last.outcome # "none"
    /\ models' = [models EXCEPT ![api.handle] =
                     [@ EXCEPT !.hdisp = hdisp, !.upsub = upsub,
                               !.plateStep = plateStep, !.plateTimer = plateTimer]]
    /\ LET r == IF seen.last.outcome = "return"
                THEN [outcome |-> "return", value |-> IntVal(0)]
                ELSE Handled(api.fn, seen.last.err)
           method == [NoMethod EXCEPT !.outcome = seen.last.outcome, !.err = seen.last.err]
       IN  Finished(api.fn, api.handle, api.args, api.before, TRUE, method,
                    r.outcome, r.value, NoArray)
    /\ Unbound
    /\ UNCHANGED <<stack, orig, nested, runs, mesh, act>>
    /\ UNCHANGED <<elev, next_handle, issued, destroyed>>

\* the coordinates the C++ side passes to interpolate_elevation_to_points:
\* flat arrays of one point and of two numbers, an (M, 3) array, no point
ApiQueries ==
    {Vector(<<4, 3, 0>>), Vector(<<1, 2>>), Array(<<(<<0, 0, 0>>)>>, 3), Array(<<>>, 3)}

\* lines 297-301: a rank-1 array is reshaped to (len // 3, 3)
Flat3(q) ==
    IF q.ndim # 1 THEN [outcome |-> "return", array |-> q]
    ELSE IF Reshapes(q.rows, Len(q.rows) \div 3)
    THEN [outcome |-> "return", array |-> Reshape(q.rows, Len(q.rows) \div 3)]
    ELSE [outcome |-> "raise", array |-> NoArray]

\* line 304: model.interpolate_elevation_to_points(coords_array, k=k, power=power);
\* every stored model has the mesh of the configuration
ModelElevation ==
    [a \in {Flat3(q).array : q \in ApiQueries} |->
        ElevationOn(DefaultMesh, a, DefaultK, DefaultPower)]

\* interpolate_elevation_to_points, lines 275-309
Api_Elevation ==
    /\ ApiIdle
    /\ \E h \in ApiHandles, q \in ApiQueries :
          LET fn == "interpolate_elevation_to_points"
              coords_array == Flat3(q)
              got == ModelElevation[coords_array.array]
          IN  IF ~Registered(h)
              THEN Finished(fn, h, NoArgs, Snapshot, FALSE, NoMethod,
                            "return", ErrorValue(fn), NoArray)
              ELSE IF coords_array.outcome = "raise"
              THEN Finished(fn, h, NoArgs, Snapshot, FALSE,
                            [NoMethod EXCEPT !.err = ReshapeError],
                            Handled(fn, ReshapeError).outcome,
                            Handled(fn, ReshapeError).value, NoArray)
              ELSE IF got.outcome = "raise"
              THEN Finished(fn, h, NoArgs, Snapshot, TRUE,
                            [NoMethod EXCEPT !.outcome = "raise", !.err = got.err],
                            Handled(fn, got.err).outcome, Handled(fn, got.err).value, NoArray)
              ELSE Finished(fn, h, NoArgs, Snapshot, TRUE,
                            [NoMethod EXCEPT !.outcome = "return"],
                            "return", [type |-> "array", v |-> 0], got.result)
    /\ UNCHANGED <<tNow, dt, tEnd, stack, last, orig, nested, runs, tectVars>>
    /\ UNCHANGED <<elev, models, next_handle, issued, destroyed>>

-----------------------------------------------------------------------------
\* the interface module as imported (lines 27-28) and no elevation call made
ExtConstructed ==
    /\ elev = NoElev
    /\ models = <<>>
    /\ next_handle = 1
    /\ api = NoApi
    /\ ret = NoRet
    /\ issued = <<>>
    /\ destroyed = {}

Init ==
    /\ tNow \in InitTimes
    /\ dt \in 1..MaxDt
    /\ tEnd = InitTEnd
    /\ stack = <<>>
    /\ last = NoLast
    /\ orig = Clock
    /\ nested = 0
    /\ runs = NoRuns
    /\ mesh = DefaultMesh
    /\ TectConstructed
    /\ ExtConstructed

Next ==
    \/ \E f \in Calls : Call(f)
    \/ \E f \in NestedCalls : Prim_Call(f)
    \/ Prim_Resume
    \/ Prim_Propagate
    \/ ForSteps_Reject
    \/ ForSteps_Begin
    \/ ForSteps_Step
    \/ ForSteps_Append
    \/ ForSteps_Return
    \/ ForSteps_Propagate
    \/ UntilTime_Reject
    \/ UntilTime_Noop
    \/ UntilTime_Begin
    \/ UntilTime_Step
    \/ UntilTime_Append
    \/ UntilTime_Return
    \/ UntilTime_Propagate
    \/ ForDt_Reject
    \/ ForDt_Save
    \/ ForDt_Override
    \/ ForDt_Invoke
    \/ ForDt_Return
    \/ ForDt_Finally
    \/ Prim_Advance
    \/ Prim_Raise

Spec == Init /\ [][Next]_vars

\* The controller over a primitive that never raises and never calls back:
\* every step of the running call, with the primitive always advancing tNow.
PlainStep ==
    \/ ForDt_Reject
    \/ ForDt_Save
    \/ ForDt_Override
    \/ ForDt_Invoke
    \/ ForDt_Return
    \/ Prim_Advance
    \/ ForSteps_Reject
    \/ ForSteps_Begin
    \/ ForSteps_Step
    \/ ForSteps_Append
    \/ ForSteps_Return
    \/ ForSteps_Propagate
    \/ UntilTime_Reject
    \/ UntilTime_Noop
    \/ UntilTime_Begin
    \/ UntilTime_Step
    \/ UntilTime_Append
    \/ UntilTime_Return
    \/ UntilTime_Propagate

NextPlain ==
    \/ \E f \in PlainCalls : CallOnNewModel(f)
    \/ NewModel
    \/ PlainStep

\* Python runs a started call on until it returns or raises (the program is
\* sequential and synchronous); a client need not call again.
SpecPlain == Init /\ [][NextPlain]_vars /\ WF_vars(PlainStep)

\* The interpolation: one DataDrivenTectonics object with any mesh flags, on a
\* clock nothing steps.
InitTect ==
    /\ tNow \in InitTimes
    /\ dt = MaxDt
    /\ tEnd = InitTEnd
    /\ stack = <<>>
    /\ last = NoLast
    /\ orig = Clock
    /\ nested = 0
    /\ runs = NoRuns
    /\ mesh \in Meshes
    /\ TectConstructed
    /\ ExtConstructed

NextTect ==
    \/ Apply_Call
    \/ Apply_CallAgain
    \/ Apply_Reject
    \/ Apply_Interpolate
    \/ Apply_Stage
    \/ Apply_Stage_Raise
    \/ Apply_Schedule
    \/ Apply_FaceVelocity
    \/ Apply_FaceVelocity_Raise
    \/ Apply_VarAdvector
    \/ Apply_VarAdvector_Raise

SpecTect == InitTect /\ [][NextTect]_vars

\* The elevation interpolation: one DataDrivenTectonics object, either order
\* of equidistant nodes, any query.
InitElev ==
    /\ tNow = 0
    /\ dt = MaxDt
    /\ tEnd = InitTEnd
    /\ stack = <<>>
    /\ last = NoLast
    /\ orig = Clock
    /\ nested = 0
    /\ runs = NoRuns
    /\ mesh \in {DefaultMesh, [DefaultMesh EXCEPT !.ties = "high"]}
    /\ TectConstructed
    /\ ExtConstructed

NextElev == Elev_Call

SpecElev == InitElev /\ [][NextElev]_vars

\* The interface: the C++ side creates, steps, drives, queries and destroys
\* models through their handles; the single-step primitive advances or raises
\* and _readAdvectionData returns or raises.
InitApi ==
    /\ tNow = 0
    /\ dt = MaxDt
    /\ tEnd = InitTEnd
    /\ stack = <<>>
    /\ last = NoLast
    /\ orig = Clock
    /\ nested = 0
    /\ runs = NoRuns
    /\ mesh = DefaultMesh
    /\ TectConstructed
    /\ ExtConstructed

NextApi ==
    \/ Api_Create
    \/ Api_Destroy
    \/ Api_GetCurrentTime
    \/ Api_GetTimeStep
    \/ Api_Run_NoModel
    \/ Api_Run_Call
    \/ Api_Run_Return
    \/ Api_Apply_Early
    \/ Api_Apply_Call
    \/ Api_Apply_Return
    \/ Api_Elevation
    \/ ForDt_Reject
    \/ ForDt_Save
    \/ ForDt_Override
    \/ ForDt_Invoke
    \/ ForDt_Return
    \/ ForDt_Finally
    \/ ForSteps_Reject
    \/ ForSteps_Begin
    \/ ForSteps_Step
    \/ ForSteps_Append
    \/ ForSteps_Return
    \/ ForSteps_Propagate
    \/ UntilTime_Reject
    \/ UntilTime_Noop
    \/ UntilTime_Begin
    \/ UntilTime_Step
    \/ UntilTime_Append
    \/ UntilTime_Return
    \/ UntilTime_Propagate
    \/ Prim_Advance
    \/ Prim_Raise
    \/ Apply_Reject
    \/ Apply_Interpolate
    \/ Apply_Stage
    \/ Apply_Stage_Raise
    \/ Apply_Schedule

SpecApi == InitApi /\ [][NextApi]_vars

-----------------------------------------------------------------------------
(* Properties *)

\* the dt a call asks for: the supplied one, or self.dt as it was at entry
Requested(r) == IF r.dtArg.some THEN r.dtArg.v ELSE r.entry.dt

\* ceil(a / b) for b > 0
CeilDiv(a, b) == (a + b - 1) \div b

\* the frame that called the top frame
Caller == stack[Depth - 1]

\* C1: every runProcessesForDt call that passes validation leaves with dt and
\* tEnd equal to their values at entry, on the return path and on the raise
\* path alike; an exception that arrived from the primitive is the exception
\* that leaves the call and that the calling frame receives.
C1_RestoredOnEveryExit ==
    /\ (last.kind = "ForDt" /\ last.validated) =>
          /\ last.exit.dt = last.entry.dt
          /\ last.exit.tEnd = last.entry.tEnd
          /\ (last.caught = NoExc) <=> (last.outcome = "return")
          /\ (last.caught # NoExc) => (last.outcome = "raise" /\ last.err = last.caught)
    /\ (last.kind = "ForDt" /\ last.outcome = "raise" /\ last.depth = Depth
        /\ ~Idle /\ Top.pc = "raised") => Top.exc = last.err

C1_Witness ==
    /\ last.kind = "ForDt" /\ last.validated
    /\ last.outcome = "raise" /\ last.failed /\ last.clean
    /\ last.dtArg.some /\ last.dtArg.v # last.entry.dt
    /\ last.depth = 0

\* C2: whenever no controller call is in progress, dt and tEnd are the values
\* the model was constructed with, whatever calls were made before (valid or
\* invalid, primitive returning or raising, calls made from inside the primitive).
C2_NoLeakWhenIdle ==
    Idle => (dt = orig.dt /\ tEnd = orig.tEnd)

C2_Witness ==
    /\ Idle
    /\ nested >= 1
    /\ last.kind = "UntilTime" /\ ~last.clean /\ last.outcome = "return"
    /\ last.inv >= 3

\* C3: runProcessesForDt with a supplied dt <= 0 raises ValueError 'dt must be
\* positive' without reaching the save, the override or the primitive, and
\* leaves tNow, dt and tEnd as they were.
C3_NonPositiveDtRejected ==
    /\ (last.kind = "ForDt" /\ last.dtArg.some /\ last.dtArg.v <= 0) =>
          /\ last.outcome = "raise" /\ last.err = ValueErrorDt
          /\ ~last.validated
          /\ last.inv = 0
          /\ last.exit = last.entry
    /\ \A i \in 1..Depth :
          (stack[i].kind = "ForDt" /\ stack[i].dtArg.some /\ stack[i].dtArg.v <= 0) =>
              (stack[i].pc = "start" /\ i = Depth /\ stack[i].entry = Clock)

C3_Witness ==
    /\ last.kind = "ForDt" /\ last.dtArg.some /\ last.dtArg.v = 0
    /\ last.outcome = "raise" /\ last.depth = 0 /\ Idle

\* C4: a valid runProcessesForDt call invokes the primitive exactly once, with
\* self.dt set to the supplied dt or, when dt is omitted, to self.dt as it was
\* at entry; when the primitive advances tNow by self.dt, tNow after the call
\* is tNow before the call plus that dt.
C4_OneStepOfRequestedDt ==
    /\ (last.kind = "ForDt" /\ last.validated /\ last.clean) => last.inv = 1
    /\ (last.kind = "ForDt" /\ last.validated /\ last.clean /\ ~last.failed) =>
          /\ last.outcome = "return"
          /\ last.exit.tNow = last.entry.tNow + Requested(last)
    /\ At("ForDt", "invoke") => (dt = Requested(Top) /\ Top.inv = 0)

C4_Witness ==
    /\ last.kind = "ForDt" /\ last.outcome = "return" /\ last.clean
    /\ last.dtArg.some /\ last.dtArg.v # last.entry.dt
    /\ last.depth = 0

\* what C5 says of a finished runProcessesUntilTime call r
UntilTimeRanToTarget(r) ==
    /\ r.outcome = "return"
    /\ r.inv = CeilDiv(r.target_time - r.entry.tNow, Requested(r))
    /\ Len(r.result) = r.inv
    /\ r.exit.tNow = r.target_time

\* every runProcessesForDt call made by runProcessesUntilTime gets
\* min(dt, target_time - tNow), evaluated at that iteration
UntilTimePassesStepDt ==
    (At("ForDt", "start") /\ Depth > 1 /\ Caller.kind = "UntilTime") =>
        Top.dtArg = Some(Min(Requested(Caller), Caller.target_time - tNow))

C6_AlreadyPastIsNoop ==
    (last.kind = "UntilTime" /\ last.target_time >= 0
     /\ last.target_time <= last.entry.tNow) =>
        /\ last.outcome = "return"
        /\ last.result = <<>>
        /\ last.inv = 0
        /\ last.exit = last.entry

C6_Witness ==
    /\ last.kind = "UntilTime" /\ last.outcome = "return"
    /\ last.target_time = 0 /\ last.entry.tNow = 0
    /\ last.depth = 0

\* C7: runProcessesForSteps with num_steps >= 1 and a valid or omitted dt passes
\* the same dt to every runProcessesForDt call it makes; with a primitive that
\* advances tNow by self.dt it makes exactly num_steps primitive invocations,
\* returns num_steps elapsed times and ends with tNow = tNow at entry +
\* num_steps * dt.
C7_ForStepsSteps ==
    /\ (At("ForDt", "start") /\ Depth > 1 /\ Caller.kind = "ForSteps") =>
          Top.dtArg = Some(Requested(Caller))
    /\ (last.kind = "ForSteps" /\ last.num_steps >= 1 /\ Requested(last) > 0
        /\ last.clean /\ ~last.failed) =>
          /\ last.outcome = "return"
          /\ last.inv = last.num_steps
          /\ Len(last.result) = last.num_steps
          /\ last.exit.tNow = last.entry.tNow + last.num_steps * Requested(last)

C7_Witness ==
    /\ last.kind = "ForSteps" /\ last.outcome = "return" /\ last.clean
    /\ last.num_steps = MaxSteps
    /\ last.dtArg.some /\ last.dtArg.v # last.entry.dt
    /\ last.depth = 0

\* C10: when the primitive raises there is no retry.  The failing
\* runProcessesForDt has invoked it exactly once; in runProcessesForSteps and
\* runProcessesUntilTime the raise on step j is the last primitive invocation
\* (j in all), the primitive's error leaves the call, tNow keeps the advance of
\* steps 1..j-1, and dt and tEnd are those at entry.
C10_NoRetryAfterPrimitiveRaise ==
    (last.failed /\ last.clean) =>
        /\ last.outcome = "raise"
        /\ last.err = PrimitiveError
        /\ last.exit.dt = last.entry.dt
        /\ last.exit.tEnd = last.entry.tEnd
        /\ last.kind = "ForDt" => (last.inv = 1 /\ last.exit.tNow = last.entry.tNow)
        /\ last.kind \in {"ForSteps", "UntilTime"} =>
              /\ last.inv = last.step + 1
              /\ last.exit.tNow = last.entry.tNow + last.step * Requested(last)

C10_Witness ==
    /\ last.kind \in {"ForSteps", "UntilTime"}
    /\ last.failed /\ last.clean
    /\ last.step >= 1
    /\ last.depth = 0

\* what C8 says of the runs a client has compared
SameFinalClock ==
    \A a, b \in Modes :
        (runs.final[a].seen /\ runs.final[b].seen) =>
            /\ runs.final[a].clock = runs.final[b].clock
            /\ runs.final[a].clock.tNow = orig.tNow + runs.total
            /\ runs.final[a].clock.dt = orig.dt
            /\ runs.final[a].clock.tEnd = orig.tEnd

\* C8 as stated: from the same initial clock, for every dt > 0 and n >= 1,
\* runProcessesForDt(n*dt), runProcessesForSteps(n, dt) and
\* runProcessesUntilTime(tNow + n*dt, dt) end with the same tNow = tNow at
\* entry + n*dt and the same restored (dt, tEnd).
C8_AsStated == SameFinalClock

\* C8: amended with the validation of line 121: the same, provided the target
\* tNow + n*dt is not negative (runProcessesUntilTime rejects a negative
\* target_time and leaves tNow where it was).
C8_SteppingEquivalence ==
    (orig.tNow + runs.total >= 0) => SameFinalClock

C8_Witness ==
    /\ \A m \in Modes : runs.final[m].seen
    /\ runs.total = MaxSteps * MaxDt
    /\ runs.final["UntilTime"].clock.tNow = orig.tNow + runs.total

\* the client's runProcessesUntilTime call in progress
UntilTimeStarted ==
    /\ ~Idle
    /\ stack[1].kind = "UntilTime"
    /\ stack[1].target_time > stack[1].entry.tNow
    /\ Requested(stack[1]) > 0

UntilTimeReached ==
    /\ Idle
    /\ last.kind = "UntilTime"
    /\ last.outcome = "return"
    /\ tNow >= last.target_time

\* C9 as stated: for target_time > tNow and dt > 0, with a primitive that never
\* raises and advances tNow by self.dt, runProcessesUntilTime eventually
\* returns, and at return tNow >= target_time.
C9_AsStated == UntilTimeStarted ~> UntilTimeReached

\* C9: amended with the validation of line 121: the same, for target_time >
\* tNow, target_time >= 0 and dt > 0.  Every such call that leaves the stack
\* leaves it by returning with tNow >= target_time, and every such call that
\* has started leaves it.
C9_UntilTimeTerminates ==
    /\ []((last.kind = "UntilTime" /\ last.depth = 0
           /\ last.target_time > last.entry.tNow /\ last.target_time >= 0
           /\ Requested(last) > 0) =>
             (last.outcome = "return" /\ last.exit.tNow >= last.target_time))
    /\ (UntilTimeStarted /\ stack[1].target_time >= 0) ~> UntilTimeReached

C9_Witness ==
    /\ UntilTimeReached
    /\ ~last.dtArg.some
    /\ last.inv >= 2
    /\ last.entry.tNow < 0

\* C11: tNow never decreases, and it changes only in a step of the wrapped
\* single-step primitive: no step of runProcessesForDt, runProcessesForSteps
\* or runProcessesUntilTime (validation, save, override, restore, loop
\* bookkeeping, return, propagation) writes it.
C11_TNowOnlyByPrimitive ==
    [][tNow' # tNow => (At("prim", "start") /\ tNow' > tNow)]_vars

C11_Witness ==
    /\ Idle
    /\ tNow > orig.tNow
    /\ last.kind = "ForSteps" /\ last.outcome = "return"
    /\ last.inv = MaxSteps

\* C12: runProcessesForSteps with num_steps <= 0 raises ValueError 'num_steps
\* must be positive' whatever dt is passed, without reaching the loop or the
\* primitive, and leaves tNow, dt and tEnd as they were.
C12_NonPositiveStepsRejected ==
    /\ (last.kind = "ForSteps" /\ last.num_steps <= 0) =>
          /\ last.outcome = "raise" /\ last.err = ValueErrorSteps
          /\ ~last.validated
          /\ last.inv = 0
          /\ last.exit = last.entry
    /\ \A i \in 1..Depth :
          (stack[i].kind = "ForSteps" /\ stack[i].num_steps <= 0) =>
              (stack[i].pc = "start" /\ i = Depth /\ stack[i].entry = Clock)

C12_Witness ==
    /\ last.kind = "ForSteps" /\ last.num_steps = 0
    /\ last.dtArg = Some(-1)
    /\ last.outcome = "raise" /\ last.depth = 0 /\ Idle

\* C13: runProcessesUntilTime with target_time < 0 raises ValueError
\* 'target_time must be non-negative' for every tNow, also a tNow below
\* target_time, without reaching the loop or the primitive, and leaves tNow, dt
\* and tEnd as they were.
C13_NegativeTargetRejected ==
    /\ (last.kind = "UntilTime" /\ last.target_time < 0) =>
          /\ last.outcome = "raise" /\ last.err = ValueErrorTarget
          /\ ~last.validated
          /\ last.inv = 0
          /\ last.exit = last.entry
    /\ \A i \in 1..Depth :
          (stack[i].kind = "UntilTime" /\ stack[i].target_time < 0) =>
              (stack[i].pc = "start" /\ i = Depth /\ stack[i].entry = Clock)

C13_Witness ==
    /\ last.kind = "UntilTime" /\ last.target_time = -1
    /\ last.entry.tNow < last.target_time
    /\ last.outcome = "raise" /\ last.depth = 0 /\ Idle

\* a finished call r was rejected for its dt before anything happened
RejectedForDt(r) ==
    /\ r.outcome = "raise" /\ r.err = ValueErrorDt
    /\ r.inv = 0
    /\ r.exit = r.entry

\* while a call with a non-positive dt is in progress nothing has been written
\* and the primitive has not been invoked
NothingDoneForBadDt ==
    \A i \in 1..Depth :
        (stack[i].kind \in {"ForSteps", "UntilTime"}
         /\ stack[i].dtArg.some /\ stack[i].dtArg.v <= 0) =>
            (stack[i].entry = Clock /\ stack[i].inv = 0)

\* C14 as stated: a supplied dt <= 0 makes runProcessesForSteps (num_steps >= 1)
\* and runProcessesUntilTime (target_time >= 0) raise ValueError 'dt must be
\* positive' before any write and any invocation of the primitive, for every
\* tNow and target_time.
C14_AsStated ==
    /\ NothingDoneForBadDt
    /\ (last.dtArg.some /\ last.dtArg.v <= 0
        /\ \/ last.kind = "ForSteps" /\ last.num_steps >= 1
           \/ last.kind = "UntilTime" /\ last.target_time >= 0) =>
          RejectedForDt(last)

\* C14: amended with the early return of lines 127-130: the same, for
\* runProcessesForSteps with num_steps >= 1 and for runProcessesUntilTime with
\* target_time >= 0 and target_time > tNow (with target_time <= tNow the call
\* returns the empty list and dt is never looked at).
C14_NonPositiveDtRejected ==
    /\ NothingDoneForBadDt
    /\ (last.dtArg.some /\ last.dtArg.v <= 0
        /\ \/ last.kind = "ForSteps" /\ last.num_steps >= 1
           \/ last.kind = "UntilTime" /\ last.target_time >= 0
              /\ last.target_time > last.entry.tNow) =>
          RejectedForDt(last)

C14_Witness ==
    /\ last.kind = "UntilTime" /\ last.dtArg = Some(0)
    /\ last.target_time > last.entry.tNow /\ last.target_time >= 0
    /\ last.outcome = "raise" /\ last.err = ValueErrorDt
    /\ last.depth = 0 /\ Idle

\* C25: while the single-step primitive runs inside runProcessesForDt, dt is
\* the requested dt (self.dt at entry when none is supplied) and tEnd is tNow
\* at entry plus the requested dt, also when the primitive has in the meantime
\* called the controller and got control back; before the override of that
\* call and after its restore, dt and tEnd are what they were at its entry.
C25_OverrideWhilePrimitiveRuns ==
    /\ (Depth > 1 /\ Top.kind = "prim") =>
          /\ Caller.kind = "ForDt"
          /\ dt = Requested(Caller)
          /\ tEnd = Caller.entry.tNow + Requested(Caller)
    /\ (~Idle /\ Top.kind = "ForDt" /\ Top.pc \in {"start", "try"}) =>
          (dt = Top.entry.dt /\ tEnd = Top.entry.tEnd)
    /\ last.kind = "ForDt" =>
          (last.exit.dt = last.entry.dt /\ last.exit.tEnd = last.entry.tEnd)

C25_Witness ==
    /\ At("prim", "returned") /\ Depth = 2
    /\ tNow > Caller.entry.tNow
    /\ dt # orig.dt
    /\ tEnd # orig.tEnd


-----------------------------------------------------------------------------
(* Properties of apply_velocity_data *)

\* an argument array is present and of shape (N, 3)
ShapeN3(a) == a.some /\ a.ndim = 2 /\ a.shape[2] = 3

\* coords or vel is missing, is not of shape (N, 3), or the row counts differ
InvalidInput(v) ==
    \/ ~ShapeN3(v.coords)
    \/ ~ShapeN3(v.vel)
    \/ v.coords.shape[1] # v.vel.shape[1]

InvalidInputErrors == {ValueErrorMissing, ValueErrorCoords, ValueErrorVel, ValueErrorRows}

\* the errors the checks of the arguments raise
InputErrors == InvalidInputErrors \cup {ValueErrorEmpty}

\* a finished call s left the object and the collaborators alone
NothingTouched(s) == s.after = s.before /\ s.colls = <<>>

\* the finished calls a client has seen
SeenCalls == {s \in {seen.last, seen.prev} : s.outcome # "none"}

\* C15: apply_velocity_data raises ValueError for the input (missing array,
\* shape other than (N, 3), differing row counts) and ValueError 'no samples'
\* when N = 0; in every such failure hdisp, upsub, plateStep and plateTimer
\* keep their previous values and no collaborator is called, and while such a
\* call is in progress nothing has been written.
C15_MalformedRejected ==
    /\ \A s \in SeenCalls :
          /\ InvalidInput(s.veldata) =>
                (s.outcome = "raise" /\ s.err \in InvalidInputErrors /\ NothingTouched(s))
          /\ (~InvalidInput(s.veldata) /\ s.veldata.coords.shape[1] = 0) =>
                (s.outcome = "raise" /\ s.err = ValueErrorEmpty /\ NothingTouched(s))
          /\ s.err \in InputErrors => NothingTouched(s)
    /\ (act.pc # "idle"
        /\ (InvalidInput(act.veldata) \/ act.veldata.coords.shape[1] = 0)) =>
          (act.pc = "start" /\ Fields = act.entry /\ colls = <<>>)

C15_Witness ==
    /\ seen.last.err = ValueErrorRows
    /\ seen.last.before.hdisp.some
    /\ seen.last.before.plateStep
    /\ seen.last.before.plateTimer # 0

\* the timer a finished call s has used
TimerOf(s) == IF s.timer.some THEN s.timer.v ELSE dt

\* the array g is the interpolated field at all mesh nodes: one row per mesh
\* node, whose rows at locIDs are the rows of hdisp
GlobalField(g, s) ==
    /\ Len(g) = Len(mesh.mCoords)
    /\ \A i \in DOMAIN mesh.locIDs : g[mesh.locIDs[i]] = s.after.hdisp.rows[i]

\* C16: with advscheme 0 a call that returns has called _readAdvectionData
\* exactly once, with the field at all mesh nodes and the timer (self.dt when
\* no timer is supplied, the supplied one otherwise), has called neither
\* getfacevelocity nor _varAdvector, and has set plateStep = True and
\* plateTimer = tNow + timer; before that call the two fields are not written.
C16_SemiLagrangianStaging ==
    /\ \A s \in SeenCalls :
          (s.outcome = "return" /\ mesh.advscheme = 0) =>
              /\ Len(s.colls) = 1
              /\ s.colls[1].name = "_readAdvectionData"
              /\ GlobalField(s.colls[1].field, s)
              /\ s.colls[1].num = TimerOf(s)
              /\ s.after.plateStep = TRUE
              /\ s.after.plateTimer = tNow + TimerOf(s)
    /\ (act.pc # "idle" /\ colls = <<>>) =>
          (plateStep = act.entry.plateStep /\ plateTimer = act.entry.plateTimer)

C16_Witness ==
    /\ seen.last.outcome = "return" /\ mesh.advscheme = 0
    /\ seen.prev.outcome = "return"
    /\ ~seen.last.timer.some
    /\ tNow # 0
    /\ seen.last.after.plateTimer = tNow + dt
    /\ Len(seen.last.colls[1].field) > Len(seen.last.after.hdisp.rows)

\* C17: with advscheme other than 0 a call that returns has called
\* getfacevelocity once and then _varAdvector once, has not called
\* _readAdvectionData, and has left plateStep and plateTimer as they were.
C17_FiniteVolumeRouting ==
    \A s \in SeenCalls :
        (s.outcome = "return" /\ mesh.advscheme # 0) =>
            /\ Len(s.colls) = 2
            /\ s.colls[1].name = "getfacevelocity"
            /\ s.colls[2].name = "_varAdvector"
            /\ s.after.plateStep = s.before.plateStep
            /\ s.after.plateTimer = s.before.plateTimer

C17_Witness ==
    /\ seen.last.outcome = "return" /\ mesh.advscheme # 0
    /\ ~mesh.flatModel
    /\ Len(seen.last.colls) = 2
    /\ seen.last.after.hdisp.some

\* C18: the array handed to getfacevelocity has lpoints rows of 3 columns; on
\* a flat mesh its first two columns are those of hdisp and its third is 0.0,
\* otherwise its rows are the rows of hdisp.
C18_NodeVelShape ==
    (colls # <<>> /\ colls[1].name = "getfacevelocity") =>
        /\ colls[1].num = mesh.lpoints
        /\ Len(colls[1].field) = mesh.lpoints
        /\ \A i \in 1..mesh.lpoints :
              /\ Len(colls[1].field[i]) = 3
              /\ colls[1].field[i][1] = hdisp.rows[i][1]
              /\ colls[1].field[i][2] = hdisp.rows[i][2]
              /\ colls[1].field[i][3] = IF mesh.flatModel THEN Zero ELSE hdisp.rows[i][3]

C18_Witness ==
    /\ colls # <<>> /\ colls[1].name = "getfacevelocity"
    /\ mesh.flatModel
    /\ \E i \in 1..mesh.lpoints : hdisp.rows[i][3] # Zero

\* the number of samples of a well-formed sample set
SampleCount(v) == v.coords.shape[1]

\* C19: for N >= 1 samples a call with k < 1 or k > N raises no error of its
\* own, and it leaves the object and the collaborators as the call with k = 1,
\* respectively k = N, on the same samples leaves them (the same hdisp and
\* upsub; when both return, the same plateStep, plateTimer and collaborator
\* calls with the same arguments).
C19_KClamped ==
    /\ \A s \in SeenCalls :
          (~InvalidInput(s.veldata) /\ SampleCount(s.veldata) >= 1) =>
              s.err \in {NoExc, CollaboratorError}
    /\ (seen.prev.outcome = "return"
        /\ seen.last.veldata = seen.prev.veldata
        /\ \/ seen.prev.k < 1 /\ seen.last.k = 1
           \/ seen.prev.k > SampleCount(seen.prev.veldata)
              /\ seen.last.k = SampleCount(seen.prev.veldata)) =>
          /\ seen.last.after.hdisp = seen.prev.after.hdisp
          /\ seen.last.after.upsub = seen.prev.after.upsub
          /\ seen.last.outcome = "return" =>
                (seen.last.after = seen.prev.after /\ seen.last.colls = seen.prev.colls)

C19_Witness ==
    /\ seen.prev.outcome = "return" /\ seen.last.outcome = "return"
    /\ seen.last.veldata = seen.prev.veldata
    /\ SampleCount(seen.prev.veldata) = MaxSamples
    /\ seen.prev.k > MaxSamples /\ seen.last.k = MaxSamples
    /\ \E i \in DOMAIN seen.last.after.hdisp.rows : seen.last.after.hdisp.rows[i][1][2] # 1

\* the samples that lie on the point q
SamplesAt(v, q) == {i \in 1..SampleCount(v) : v.coords.rows[i] = q}

\* the row x is exactly the velocity of a sample of v lying on q
PassedThrough(x, v, q) ==
    \E i \in SamplesAt(v, q) : \A c \in 1..3 : x[c] = <<v.vel.rows[i][c], 1>>

\* C20: for every sample set, k and power, a mesh node that lies on a sample
\* gets exactly the velocity of the nearest sample, which lies on it, not a
\* blend with the other neighbours: in hdisp and upsub for the local nodes,
\* and in the field handed to _readAdvectionData for every node.
C20_ExactPassThrough ==
    \A s \in SeenCalls :
        s.err \in {NoExc, CollaboratorError} =>
            /\ \A i \in DOMAIN mesh.locIDs :
                  SamplesAt(s.veldata, mesh.mCoords[mesh.locIDs[i]]) # {} =>
                      /\ PassedThrough(s.after.hdisp.rows[i], s.veldata,
                                       mesh.mCoords[mesh.locIDs[i]])
                      /\ s.after.upsub.rows[i] = s.after.hdisp.rows[i][3]
            /\ (s.colls # <<>> /\ s.colls[1].name = "_readAdvectionData") =>
                  \A m \in DOMAIN mesh.mCoords :
                      SamplesAt(s.veldata, mesh.mCoords[m]) # {} =>
                          PassedThrough(s.colls[1].field[m], s.veldata, mesh.mCoords[m])

C20_Witness ==
    /\ seen.last.outcome = "return"
    /\ seen.last.k >= 2 /\ SampleCount(seen.last.veldata) >= 2
    /\ seen.last.power = 2
    /\ SamplesAt(seen.last.veldata, mesh.mCoords[mesh.locIDs[1]]) = {}
    /\ Cardinality(SamplesAt(seen.last.veldata, mesh.mCoords[mesh.locIDs[2]])) = 1
    /\ seen.last.after.hdisp.rows[1][1][2] # 1

\* the sets of k samples of v nearest to the point q: no sample left out is
\* nearer to q than a sample taken
KNearestSets(v, q, k) ==
    {N \in SUBSET (1..SampleCount(v)) :
        /\ Cardinality(N) = k
        /\ \A i \in N, j \in (1..SampleCount(v)) \ N :
              Dist(v.coords.rows[i], q) <= Dist(v.coords.rows[j], q)}

\* the sum of the fractions f[i], i in the set S
RECURSIVE RSumOver(_, _)
RSumOver(f, S) ==
    IF S = {} THEN <<0, 1>>
    ELSE LET i == CHOOSE x \in S : TRUE
         IN  RAdd(f[i], RSumOver(f, S \ {i}))

\* the fractions a and b are the same number
REq(a, b) == a[1] * b[2] = b[1] * a[2]

\* x is sum(w_i * v_i) / sum(w_i) over the samples N of v as seen from q,
\* with w_i = 1 / d_i^power
WeightedAverage(x, v, q, N, power) ==
    LET w == [i \in N |-> <<1, Pow(Dist(v.coords.rows[i], q), power)>>]
    IN  \A c \in 1..3 :
            REq(x[c], RDiv(RSumOver([i \in N |-> RMul(w[i], <<v.vel.rows[i][c], 1>>)], N),
                           RSumOver(w, N)))

\* x is the weighted average over k nearest samples of q
BlendOfNearest(x, v, q, k, power) ==
    \E N \in KNearestSets(v, q, k) : WeightedAverage(x, v, q, N, power)

\* the clamped k of a finished call s
ClampedK(s) ==
    IF s.k < 1 THEN 1
    ELSE IF s.k > SampleCount(s.veldata) THEN SampleCount(s.veldata)
    ELSE s.k

C22_LocalRestriction ==
    \A s \in SeenCalls :
        s.outcome = "return" =>
            /\ s.after.hdisp.some /\ s.after.hdisp.shape = <<Len(mesh.locIDs), 3>>
            /\ DOMAIN s.after.hdisp.rows = DOMAIN mesh.locIDs
            /\ Len(s.v_interp) = Len(mesh.mCoords)
            /\ \A i \in DOMAIN mesh.locIDs :
                  s.after.hdisp.rows[i] = s.v_interp[mesh.locIDs[i]]
            /\ s.after.upsub.some /\ s.after.upsub.shape = <<Len(mesh.locIDs)>>
            /\ DOMAIN s.after.upsub.rows = DOMAIN mesh.locIDs
            /\ \A i \in DOMAIN mesh.locIDs :
                  s.after.upsub.rows[i] = s.after.hdisp.rows[i][3]
            /\ (s.colls[1].name = "_readAdvectionData") => s.colls[1].field = s.v_interp

C22_Witness ==
    /\ seen.last.outcome = "return" /\ mesh.advscheme # 0
    /\ seen.prev.outcome = "return"
    /\ seen.last.after.hdisp # seen.prev.after.hdisp
    /\ seen.last.v_interp[1] # seen.last.v_interp[mesh.locIDs[1]]
    /\ seen.last.after.upsub.rows[1] # seen.last.after.upsub.rows[2]

\* C23: apply_velocity_data leaves its inputs alone.  In every step of a call,
\* returning or raising, the caller's coords and vel arrays hold what they
\* held before the step (when the call finishes, the client finds in them what
\* the call was given), and mCoords and locIDs are not written.
C23_InputsNotMutated ==
    [][act.pc # "idle" =>
          /\ mesh'.mCoords = mesh.mCoords
          /\ mesh'.locIDs = mesh.locIDs
          /\ IF act'.pc = "idle" THEN seen'.last.veldata = act.veldata
             ELSE act'.veldata = act.veldata]_vars

C23_Witness ==
    /\ seen.last.err = CollaboratorError
    /\ seen.last.k >= 2 /\ SampleCount(seen.last.veldata) = MaxSamples
    /\ seen.last.veldata.coords.rows[1] # seen.last.veldata.coords.rows[MaxSamples]
    /\ SamplesAt(seen.last.veldata, mesh.mCoords[mesh.locIDs[1]]) # {}
    /\ seen.last.after.hdisp.some

\* C26: with advscheme 0, plateStep and plateTimer are written only once
\* _readAdvectionData has returned.  While the call has not got that far they
\* are what they were at entry, and a call in which _readAdvectionData raises
\* leaves them so, although hdisp and upsub hold the rows of the field just
\* interpolated.
C26_ScheduleAfterStaging ==
    /\ (act.pc \in {"start", "route"}) =>
          (plateStep = act.entry.plateStep /\ plateTimer = act.entry.plateTimer)
    /\ \A s \in SeenCalls :
          (mesh.advscheme = 0 /\ s.err = CollaboratorError) =>
              /\ Len(s.colls) = 1 /\ s.colls[1].name = "_readAdvectionData"
              /\ s.after.plateStep = s.before.plateStep
              /\ s.after.plateTimer = s.before.plateTimer
              /\ s.after.hdisp = Array([i \in DOMAIN mesh.locIDs |-> s.v_interp[mesh.locIDs[i]]], 3)
              /\ s.after.upsub = Vector([i \in DOMAIN mesh.locIDs |-> s.v_interp[mesh.locIDs[i]][3]])

C26_Witness ==
    /\ mesh.advscheme = 0 /\ seen.last.err = CollaboratorError
    /\ ~seen.last.before.plateStep /\ ~plateStep
    /\ plateTimer = 0 /\ tNow + TimerOf(seen.last) # 0
    /\ hdisp.some /\ hdisp # seen.last.before.hdisp
    /\ upsub.some


-----------------------------------------------------------------------------
(* Properties of interpolate_elevation_to_points *)

\* the mesh nodes that lie on the point q
NodesAt(q) == {n \in DOMAIN mesh.mCoords : mesh.mCoords[n] = q}

\* the sets of k mesh nodes nearest to the point q
KNearestNodes(q, k) ==
    {N \in SUBSET (DOMAIN mesh.mCoords) :
        /\ Cardinality(N) = k
        /\ \A i \in N, j \in (DOMAIN mesh.mCoords) \ N :
              Dist(mesh.mCoords[i], q) <= Dist(mesh.mCoords[j], q)}

\* x is sum(w_i * h_i) / sum(w_i) over the mesh nodes N as seen from q, with
\* w_i = 1 / d_i^power and h_i the elevation of node i
ScalarAverage(x, q, N, power) ==
    LET w == [i \in N |-> <<1, Pow(Dist(mesh.mCoords[i], q), power)>>]
    IN  REq(x, RDiv(RSumOver([i \in N |-> RMul(w[i], <<HGlobal[i], 1>>)], N),
                    RSumOver(w, N)))

\* k clamped into 1..number of mesh nodes
ElevClampedK(k) ==
    IF k < 1 THEN 1
    ELSE IF k > Len(mesh.mCoords) THEN Len(mesh.mCoords)
    ELSE k

\* C24: interpolate_elevation_to_points raises ValueError 'must be of shape
\* (N, 3)' for query points that are not a rank-2 array of 3 columns and
\* ValueError 'contains no points' for an array of shape (0, 3); otherwise it
\* returns a rank-1 array of one scalar per query point, which for a point on
\* a mesh node is exactly that node's elevation and for any other point the
\* weighted average over k nearest nodes, k clamped into 1..number of nodes.
C24_ElevationToPoints ==
    elev.outcome # "none" =>
        /\ ~ShapeN3(elev.coords) =>
              (elev.outcome = "raise" /\ elev.err = ValueErrorQuery)
        /\ (ShapeN3(elev.coords) /\ elev.coords.shape[1] = 0) =>
              (elev.outcome = "raise" /\ elev.err = ValueErrorNoPoints)
        /\ (ShapeN3(elev.coords) /\ elev.coords.shape[1] > 0) =>
              /\ elev.outcome = "return"
              /\ elev.result.ndim = 1
              /\ elev.result.shape = <<elev.coords.shape[1]>>
              /\ DOMAIN elev.result.rows = 1..elev.coords.shape[1]
              /\ \A m \in 1..elev.coords.shape[1] :
                    LET q == elev.coords.rows[m]
                    IN  IF NodesAt(q) # {}
                        THEN \E n \in NodesAt(q) : elev.result.rows[m] = <<HGlobal[n], 1>>
                        ELSE \E N \in KNearestNodes(q, ElevClampedK(elev.k)) :
                                 ScalarAverage(elev.result.rows[m], q, N, elev.power)

C24_Witness ==
    /\ elev.outcome = "return"
    /\ elev.k > Len(mesh.mCoords) /\ elev.power = 2
    /\ elev.coords.shape[1] = MaxQuery
    /\ NodesAt(elev.coords.rows[1]) # {}
    /\ NodesAt(elev.coords.rows[MaxQuery]) = {}
    /\ elev.result.rows[MaxQuery][2] # 1

-----------------------------------------------------------------------------
(* Properties of the interface module *)

\* the handles create_enhanced_model has returned
IssuedHandles == {issued[i] : i \in DOMAIN issued}

\* the handles that were issued and not destroyed when the call r was made
LiveBefore(r) ==
    IssuedHandles \ (destroyed \ (IF r.fn = "destroy_model" /\ r.value = IntVal(0)
                                  THEN {r.handle} ELSE {}))

\* the function did not take its handle-not-found branch
Accepted(r) ==
    CASE r.fn = "get_current_time" -> r.value = FloatVal(r.before.models[r.handle].tNow)
      [] r.fn = "get_time_step" -> r.value = FloatVal(r.before.models[r.handle].dt)
      [] r.fn \in {"apply_velocity_data", "interpolate_elevation_to_points"} ->
            r.called \/ r.method.err = ReshapeError
      [] OTHER -> r.called

C28_HandlesNeverReused ==
    /\ \A i, j \in DOMAIN issued : i < j => issued[i] < issued[j]
    /\ \A h \in destroyed :
          /\ Cardinality({i \in DOMAIN issued : issued[i] = h}) = 1
          /\ ~Registered(h)
    /\ \A h \in DOMAIN models : h < next_handle
    /\ \A h \in IssuedHandles : h < next_handle
    /\ (ret.fn = "create_enhanced_model" /\ ret.value # IntVal(-1)) =>
          /\ ret.value.v = issued[Len(issued)]
          /\ ret.value.v \notin DOMAIN ret.before.models
          /\ ret.value.v >= ret.before.next_handle
    /\ (ret.fn = "create_enhanced_model" /\ ret.value = IntVal(-1)) =>
          /\ models = ret.before.models
          /\ next_handle = ret.before.next_handle

\* handle 1 was destroyed, and the create after it returned 2
C28_Witness ==
    /\ 1 \in destroyed
    /\ ret.fn = "create_enhanced_model"
    /\ ret.value = IntVal(2)
    /\ DOMAIN models = {2}

\* a call with a handle that is not registered: the error value, no method
\* called, the registry and every stored model as before
UnregisteredRefused ==
    (ret.fn \notin {"none", "create_enhanced_model"} /\ ~ret.registered) =>
        /\ ret.outcome = "return"
        /\ ret.value = ErrorValue(ret.fn)
        /\ ~ret.called
        /\ models = ret.before.models
        /\ next_handle = ret.before.next_handle

\* destroy_model returned 0: the entry is gone, the others are as before
DestroyRemoved(r) ==
    /\ r.value = IntVal(0)
    /\ DOMAIN models = DOMAIN r.before.models \ {r.handle}
    /\ \A g \in DOMAIN models : models[g] = r.before.models[g]

\* C29 as the claim states it: destroy_model of any registered handle
\* returns 0 and removes the entry.
C29_AsStated ==
    /\ UnregisteredRefused
    /\ (ret.fn = "destroy_model" /\ ret.registered) => DestroyRemoved(ret)

\* C29: every interface function called with a handle that is not registered
\* returns its error value (-1, -1.0 or None), calls no model method and
\* leaves the registry and every stored model unchanged.  destroy_model of a
\* registered handle returns 0 and removes the entry when the model has no
\* destroy method or its destroy() returns, so that a second destroy_model
\* of the handle returns -1; when destroy() raises, destroy_model returns -1
\* and the handle stays registered.
C29_UnregisteredHandleRefused ==
    /\ UnregisteredRefused
    /\ (ret.fn = "destroy_model" /\ ret.registered /\ ret.method.outcome = "return") =>
          DestroyRemoved(ret)
    /\ (ret.fn = "destroy_model" /\ ret.registered /\ ret.method.outcome = "raise") =>
          /\ ret.value = IntVal(-1)
          /\ models = ret.before.models
    /\ (ret.fn = "destroy_model" /\ ret.value = IntVal(0)) => ret.registered
    /\ (ret.fn = "destroy_model" /\ ret.handle \in destroyed /\ ~ret.registered) =>
          ret.value = IntVal(-1)

\* the second destroy_model of handle 1 returned -1 while model 2, stepped
\* and driven, stayed as it was
C29_Witness ==
    /\ ret.fn = "destroy_model"
    /\ ret.handle = 1
    /\ 1 \in destroyed
    /\ ~ret.registered
    /\ ret.value = IntVal(-1)
    /\ DOMAIN models = {2}
    /\ models[2].tNow > orig.tNow
    /\ models[2].plateStep

\* C30: no error a model method raises leaves a wrapper: on a validation or
\* primitive failure run_processes_for_dt returns -1.0 and
\* run_processes_for_steps, run_processes_until_time and apply_velocity_data
\* return -1; on success run_processes_for_steps returns num_steps,
\* run_processes_until_time the number of steps executed (0 when
\* target_time <= tNow) and apply_velocity_data 0.
C30_ErrorsBecomeReturnValues ==
    /\ ret.fn # "none" => ret.outcome = "return"
    /\ (ret.fn = "run_processes_for_dt" /\ ret.registered) =>
          /\ ret.method.outcome = "raise" => ret.value = FloatVal(-1)
          /\ ret.method.outcome = "return" => ret.value = ElapsedVal
    /\ (ret.fn = "run_processes_for_steps" /\ ret.registered) =>
          /\ ret.method.outcome = "raise" => ret.value = IntVal(-1)
          /\ ret.method.outcome = "return" =>
                /\ ret.value = IntVal(ret.args.num_steps)
                /\ ret.method.inv = ret.args.num_steps
    /\ (ret.fn = "run_processes_until_time" /\ ret.registered) =>
          /\ ret.method.outcome = "raise" => ret.value = IntVal(-1)
          /\ ret.method.outcome = "return" =>
                /\ ret.value = IntVal(ret.method.inv)
                /\ ret.args.target_time <= ret.method.tNow => ret.value = IntVal(0)
    /\ (ret.fn = "apply_velocity_data" /\ ret.registered) =>
          /\ ret.method.outcome = "return" => ret.value = IntVal(0)
          /\ ret.method.outcome # "return" => ret.value = IntVal(-1)
    /\ (ret.fn \in RunWrappers \cup {"apply_velocity_data"} /\ ret.registered) =>
          ret.method.outcome \in {"return", "raise"} \/ ret.method.err = ReshapeError

\* the primitive failed in the second step of run_processes_for_steps and
\* the wrapper returned -1
C30_Witness ==
    /\ ret.fn = "run_processes_for_steps"
    /\ ret.method.outcome = "raise"
    /\ ret.method.err = PrimitiveError
    /\ ret.method.inv = 2
    /\ ret.value = IntVal(-1)
    /\ models[ret.handle].tNow > ret.method.tNow

====
